---- MODULE Spec2Model ----
(***************************************************************************)
(* State-machine model of geoarrow-viz: the tile cache                     *)
(* (src/src/engine/tiles.rs), the viewport, the geographic bounds, the     *)
(* feature geometries, tiles, layers and the GeoArrowFile data source      *)
(* (src/src/model/mod.rs), the render-context coordinate transforms        *)
(* (src/src/engine/mod.rs, src/src/engine/transforms.rs), the render       *)
(* pipeline (src/src/engine/mod.rs, src/src/engine/geometry.rs), the       *)
(* canvas renderers (src/src/engine/renderer.rs) and the map view          *)
(* (src/src/view/view.rs).                                                 *)
(***************************************************************************)
EXTENDS Integers, Sequences, FiniteSets, TLC

(***************************************************************************)
(* Bounds of the model.                                                    *)
(***************************************************************************)
\* tile ids are 1..NumIds (u32 keys of TileCache.tiles)
NumIds == 3
\* capacities given to TileCache::new are 0..MaxCap
MaxCap == 2
\* length of the recorded call history of the cache
MaxCalls == 4
\* zoom values are fixed-point: ZoomDen units per zoom level
ZoomDen == 2

(***************************************************************************)
(* Program constants.                                                      *)
(***************************************************************************)
\* largest zoom Viewport accepts (mod.rs:817, 853)
MaxZoom == 20
\* pixels per tile edge in recalculate_bounds (mod.rs:885-886)
TilePixels == 256

VARIABLES
    \* ---- TileCache (tiles.rs:17-23) ----
    tiles,          \* DashMap<u32, Tile>: function from the cached ids to tiles
    access_order,   \* Vec<u32>
    max_size,       \* usize
    current_size,   \* usize
    \* ---- callers of the cache ----
    reading,        \* per reader: 0, or the id whose lookup holds a shared borrow
    calls,          \* history of the calls made on the cache, oldest first
    cache_ret,      \* what the last finished call returned
    \* ---- Viewport (mod.rs:801-808) ----
    vp_live,        \* TRUE once Viewport::new has returned Ok
    viewport,       \* the Viewport's fields
    vp_call,        \* the last call made on the viewport (with the arguments, for new)
    vp_ret,         \* "Ok" or "Err": what that call returned
    xf,             \* the coordinate conversion, if that was the last call: input,
                    \* result, result converted back
    required,       \* the result of get_required_tiles, if that was the last call
    \* ---- GeoBounds (mod.rs:10-15) ----
    geo,            \* the last GeoBounds::intersects calls: a, b, a.intersects(b), b.intersects(a)
    checked,        \* the last FeatureGeometry::is_valid call: the geometry, the result
    \* ---- rendering (engine/mod.rs, engine/renderer.rs) ----
    surface,        \* the primitive calls made on the canvas context so far, in order
    requests,       \* the render closures handed to render_with_canvas by the last
                    \* render_features pass, in order
    render_call,    \* the last render call: function, arguments, Len(surface) before it
    render_ret,     \* "Ok" or "Err": what that call returned
    renders,         \* the number of render calls made
    \* ---- Tile (model/mod.rs:303-311) ----
    this_tile,      \* the Tile, or NoTile before Tile::new has returned one
    tile_ret,       \* what the last Tile call returned
    tile_calls,     \* the add_feature calls so far: <<feature, "Ok" | "Err">>
    \* ---- Layer (model/mod.rs:717-727) ----
    this_layer,     \* the Layer, or NoLayer
    layer_ret,      \* what the last Layer call returned
    \* ---- GeoArrowFile (model/mod.rs:99-105) ----
    this_file,      \* the GeoArrowFile and the content its path leads to
    file_ret,       \* what the GeoArrowFile calls so far returned, in order
    \* ---- MapView (view/view.rs:37-44) ----
    this_view,      \* the MapView
    view_ret        \* what the MapView calls so far were given and returned, in order

cacheVars == <<tiles, access_order, max_size, current_size, reading, calls, cache_ret>>

viewportVars == <<vp_live, viewport, vp_call, vp_ret, xf, required>>

geoVars == <<geo, checked>>

renderVars == <<surface, requests, render_call, render_ret, renders>>

tileVars == <<this_tile, tile_ret, tile_calls>>

layerVars == <<this_layer, layer_ret>>

fileVars == <<this_file, file_ret>>

viewVars == <<this_view, view_ret>>

modelVars == <<tileVars, layerVars, fileVars, viewVars>>

vars == <<tiles, access_order, max_size, current_size, reading, calls, cache_ret,
          vp_live, viewport, vp_call, vp_ret, xf, required, geo, checked,
          surface, requests, render_call, render_ret, renders,
          this_tile, tile_ret, tile_calls, this_layer, layer_ret, this_file, file_ret,
          this_view, view_ret>>

(***************************************************************************)
(* f64 values. A geographic coordinate is a fixed-point integer in units   *)
(* of 45/2^27 degree, which the bounds arithmetic of every zoom level      *)
(* 0..20 and every pixel size keeps exact; NaN is the one value that is    *)
(* not a number. Quotients are exact fractions <<numerator, denominator>>. *)
(***************************************************************************)
RECURSIVE Pow2(_)
Pow2(n) == IF n = 0 THEN 1 ELSE 2 * Pow2(n - 1)

Deg45 == Pow2(27)
Deg90 == 2 * Deg45
Deg180 == 4 * Deg45
Deg360 == 8 * Deg45

\* f64::NAN, encoded as an integer no number of the model takes
NaN == 0 - 2147483647

\* the f64 comparisons: every comparison with NaN is false
FLt(a, b) == a # NaN /\ b # NaN /\ a < b
FLe(a, b) == a # NaN /\ b # NaN /\ a <= b
FGt(a, b) == a # NaN /\ b # NaN /\ a > b
FGe(a, b) == a # NaN /\ b # NaN /\ a >= b

Abs(a) == IF a < 0 THEN 0 - a ELSE a

RECURSIVE Gcd(_, _)
Gcd(a, b) == IF b = 0 THEN a ELSE Gcd(b, a % b)

Sgn(a) == IF a < 0 THEN 0 - 1 ELSE IF a > 0 THEN 1 ELSE 0

\* n/d in lowest terms with a positive denominator; for d = 0 the f64 values
\* that are not finite: <<1, 0>> is +inf, <<-1, 0>> is -inf and <<0, 0>> is NaN
Frac(n, d) ==
    IF d = 0 THEN <<Sgn(n), 0>>
    ELSE LET g == Gcd(Abs(n), Abs(d))
         IN  IF d < 0 THEN <<0 - (n \div g), 0 - (d \div g)>> ELSE <<n \div g, d \div g>>

QInt(a) == <<a, 1>>

\* p * q; inf * 0 and NaN * q are NaN
QMul(p, q) ==
    IF p[2] = 0 \/ q[2] = 0 THEN <<Sgn(p[1]) * Sgn(q[1]), 0>>
    ELSE LET g1 == Gcd(Abs(p[1]), q[2])
             g2 == Gcd(Abs(q[1]), p[2])
         IN  Frac((p[1] \div g1) * (q[1] \div g2), (p[2] \div g2) * (q[2] \div g1))

\* p / q; a division by (positive) zero is +inf, -inf or, for 0 / 0, NaN
QDiv(p, q) == QMul(p, IF q[1] < 0 THEN <<0 - q[2], 0 - q[1]>> ELSE <<q[2], q[1]>>)

\* p + q; inf + (-inf) and NaN + q are NaN
QAdd(p, q) ==
    IF p[2] = 0 /\ q[2] = 0 THEN (IF p[1] = q[1] THEN p ELSE <<0, 0>>)
    ELSE IF p[2] = 0 THEN p
    ELSE IF q[2] = 0 THEN q
    ELSE LET g == Gcd(p[2], q[2])
         IN  Frac(p[1] * (q[2] \div g) + q[1] * (p[2] \div g), (p[2] \div g) * q[2])

QSub(p, q) == QAdd(p, <<0 - q[1], q[2]>>)

(***************************************************************************)
(* GeoBounds, GeoPoint, PixelSize                                          *)
(***************************************************************************)
GeoBounds_new(min_x, min_y, max_x, max_y) ==
    [min_x |-> min_x, min_y |-> min_y, max_x |-> max_x, max_y |-> max_y]

PixelBounds_new(min_x, min_y, max_x, max_y) ==
    [min_x |-> min_x, min_y |-> min_y, max_x |-> max_x, max_y |-> max_y]

is_empty(b) == FGe(b.min_x, b.max_x) \/ FGe(b.min_y, b.max_y)

\* faulty variant: rectangles that touch along a vertical edge count for one side only
intersects_touching(self, other) ==
    ~(FLt(self.max_x, other.min_x)
        \/ FGe(self.min_x, other.max_x)
        \/ FLe(self.max_y, other.min_y)
        \/ FGe(self.min_y, other.max_y))

intersects(self, other) ==
    ~(FLe(self.max_x, other.min_x)
        \/ FGe(self.min_x, other.max_x)
        \/ FLe(self.max_y, other.min_y)
        \/ FGe(self.min_y, other.max_y))

\* the coordinates of the rectangles compared
GeoCoords == {0, 1, 2, NaN}

BoundsSet == [min_x : GeoCoords, min_y : GeoCoords, max_x : GeoCoords, max_y : GeoCoords]

InitGeo == geo = [op |-> "none", a |-> GeoBounds_new(0, 0, 0, 0),
                  b |-> GeoBounds_new(0, 0, 0, 0), ab |-> FALSE, ba |-> FALSE]

\* a.intersects(&b) and b.intersects(&a), for one pair of rectangles
Intersects(a, b) ==
    /\ geo.op = "none"
    /\ geo' = [op |-> "intersects", a |-> a, b |-> b,
               ab |-> intersects(a, b), ba |-> intersects(b, a)]
    /\ UNCHANGED <<tiles, access_order, max_size, current_size, reading, calls, cache_ret>>
    /\ UNCHANGED viewportVars
    /\ UNCHANGED renderVars
    /\ UNCHANGED modelVars
    /\ UNCHANGED checked

NextGeo == geo.op = "none" /\ \E a \in BoundsSet, b \in BoundsSet : Intersects(a, b)

GeoPoint_new(lat, lng) == [lat |-> lat, lng |-> lng]

\* faulty variant: the poles and the antimeridian are left out
GeoPoint_is_valid_exclusive(p) ==
    FGt(p.lat, 0 - Deg90) /\ FLt(p.lat, Deg90) /\ FGt(p.lng, 0 - Deg180) /\ FLt(p.lng, Deg180)

GeoPoint_is_valid(p) ==
    FGe(p.lat, 0 - Deg90) /\ FLe(p.lat, Deg90) /\ FGe(p.lng, 0 - Deg180) /\ FLe(p.lng, Deg180)

PixelSize_new(width, height) == [width |-> width, height |-> height]

(***************************************************************************)
(* Viewport                                                                *)
(***************************************************************************)
\* `zoom as u32`: truncation; NaN and negative values become 0
zoom_as_u32(zoom) == IF zoom = NaN \/ zoom < 0 THEN 0 ELSE zoom \div ZoomDen

\* faulty variant: the bounds are left as they were
recalculate_bounds_skipped(v) == v

\* recalculate_bounds: bounds = center -/+ half extents, where
\*   half_width  = (width / 2) * (1 / 2^zoom) * 360 / 256
\*   half_height = (height / 2) * (1 / 2^zoom) * 180 / 256
recalculate_bounds(v) ==
    LET shift == Pow2(zoom_as_u32(v.zoom))
        half_width == v.size.width * (Deg360 \div (2 * shift * TilePixels))
        half_height == v.size.height * (Deg180 \div (2 * shift * TilePixels))
    IN  [v EXCEPT !.bounds = GeoBounds_new(v.center.lng - half_width,
                                           v.center.lat - half_height,
                                           v.center.lng + half_width,
                                           v.center.lat + half_height)]

Ok(v) == [ok |-> TRUE, v |-> v]

Err(v) == [ok |-> FALSE, v |-> v]

\* the fields before Viewport::new has produced a viewport
NoViewport ==
    [center |-> GeoPoint_new(0, 0), zoom |-> 0, rotation |-> 0,
     size |-> PixelSize_new(0, 0),
     bounds |-> GeoBounds_new(0, 0, 0, 0),
     pixel_bounds |-> PixelBounds_new(0, 0, 0, 0)]

Viewport_new(center, zoom, size) ==
    IF ~GeoPoint_is_valid(center) THEN Err(NoViewport)
    ELSE IF FLt(zoom, 0) \/ FGt(zoom, MaxZoom * ZoomDen) THEN Err(NoViewport)
    ELSE IF size.width = 0 \/ size.height = 0 THEN Err(NoViewport)
    ELSE Ok(recalculate_bounds(
            [center |-> center, zoom |-> zoom, rotation |-> 0, size |-> size,
             bounds |-> GeoBounds_new(0, 0, 0, 0),
             pixel_bounds |-> PixelBounds_new(0, 0, size.width, size.height)]))

pan(v, new_center) ==
    IF ~GeoPoint_is_valid(new_center) THEN Err(v)
    ELSE Ok(recalculate_bounds([v EXCEPT !.center = new_center]))

zoom_to(v, new_zoom) ==
    IF FLt(new_zoom, 0) \/ FGt(new_zoom, MaxZoom * ZoomDen) THEN Err(v)
    ELSE Ok(recalculate_bounds([v EXCEPT !.zoom = new_zoom]))

resize(v, new_size) ==
    IF new_size.width = 0 \/ new_size.height = 0 THEN Err(v)
    ELSE Ok(recalculate_bounds(
            [v EXCEPT !.size = new_size,
                      !.pixel_bounds = PixelBounds_new(0, 0, new_size.width, new_size.height)]))

rotate(v, rotation) == recalculate_bounds([v EXCEPT !.rotation = rotation])

\* world_to_screen: the pixel position <<x, y>> of a geographic point (whose
\* coordinates are given as fractions)
Viewport_world_to_screen(v, point) ==
    IF is_empty(v.bounds) THEN <<QInt(0), QInt(0)>>
    ELSE LET x_ratio == QDiv(QSub(point.lng, QInt(v.bounds.min_x)),
                             QInt(v.bounds.max_x - v.bounds.min_x))
             y_ratio == QDiv(QSub(point.lat, QInt(v.bounds.min_y)),
                             QInt(v.bounds.max_y - v.bounds.min_y))
             screen_x == QMul(x_ratio, QInt(v.size.width))
             screen_y == QSub(QInt(v.size.height), QMul(y_ratio, QInt(v.size.height)))
         IN  <<screen_x, screen_y>>

\* faulty variant: the vertical axis is not flipped back
Viewport_screen_to_world_noflip(v, x, y) ==
    IF is_empty(v.bounds) THEN GeoPoint_new(QInt(v.center.lat), QInt(v.center.lng))
    ELSE LET x_ratio == QDiv(x, QInt(v.size.width))
             y_ratio == QDiv(y, QInt(v.size.height))
             lng == QAdd(QInt(v.bounds.min_x),
                         QMul(x_ratio, QInt(v.bounds.max_x - v.bounds.min_x)))
             lat == QAdd(QInt(v.bounds.min_y),
                         QMul(y_ratio, QInt(v.bounds.max_y - v.bounds.min_y)))
         IN  GeoPoint_new(lat, lng)

\* screen_to_world: the geographic point of a pixel position
Viewport_screen_to_world(v, x, y) ==
    IF is_empty(v.bounds) THEN GeoPoint_new(QInt(v.center.lat), QInt(v.center.lng))
    ELSE LET x_ratio == QDiv(x, QInt(v.size.width))
             y_ratio == QDiv(QSub(QInt(v.size.height), y), QInt(v.size.height))
             lng == QAdd(QInt(v.bounds.min_x),
                         QMul(x_ratio, QInt(v.bounds.max_x - v.bounds.min_x)))
             lat == QAdd(QInt(v.bounds.min_y),
                         QMul(y_ratio, QInt(v.bounds.max_y - v.bounds.min_y)))
         IN  GeoPoint_new(lat, lng)

\* `f64 as u32` / `f64 as u8` of a whole number: negative values become 0
f64_as_u32(a) == IF a < 0 THEN 0 ELSE a

\* floor and ceil of a / d for d > 0
Floor(a, d) == a \div d

Ceil(a, d) == 0 - ((0 - a) \div d)

\* the tiles of x in min_tile_x..=max_x, y in min_tile_y..=max_y at level z, in
\* the order the nested loops push them
TileGrid(min_tile_x, max_x, min_tile_y, max_y, z) ==
    IF min_tile_x > max_x \/ min_tile_y > max_y THEN <<>>
    ELSE LET ny == max_y - min_tile_y + 1
             nx == max_x - min_tile_x + 1
         IN  [i \in 1..(nx * ny) |->
                <<min_tile_x + ((i - 1) \div ny), min_tile_y + ((i - 1) % ny), z>>]

\* faulty variant: the upper indices are not clamped to tile_count - 1
get_required_tiles_unclamped(v) ==
    LET z == zoom_as_u32(v.zoom)
        tile_count == Pow2(z)
    IN  TileGrid(f64_as_u32(Floor(v.bounds.min_x + Deg180, Deg360 \div tile_count)),
                 f64_as_u32(Ceil(v.bounds.max_x + Deg180, Deg360 \div tile_count)),
                 f64_as_u32(Floor(Deg90 - v.bounds.max_y, Deg180 \div tile_count)),
                 f64_as_u32(Ceil(Deg90 - v.bounds.min_y, Deg180 \div tile_count)), z)

\* faulty variant: the level is the zoom rounded up
get_required_tiles_ceilzoom(v) ==
    LET z == IF v.zoom = NaN THEN 0 ELSE Ceil(v.zoom, ZoomDen)
        tile_count == Pow2(z)
        Min(a, b) == IF a < b THEN a ELSE b
    IN  TileGrid(f64_as_u32(Floor(v.bounds.min_x + Deg180, Deg360 \div tile_count)),
                 Min(f64_as_u32(Ceil(v.bounds.max_x + Deg180, Deg360 \div tile_count)),
                     tile_count - 1),
                 f64_as_u32(Floor(Deg90 - v.bounds.max_y, Deg180 \div tile_count)),
                 Min(f64_as_u32(Ceil(Deg90 - v.bounds.min_y, Deg180 \div tile_count)),
                     tile_count - 1), z)

\* faulty variant: the lower indices are rounded up
get_required_tiles_minceil(v) ==
    LET z == zoom_as_u32(v.zoom)
        tile_count == Pow2(z)
        Min(a, b) == IF a < b THEN a ELSE b
    IN  TileGrid(f64_as_u32(Ceil(v.bounds.min_x + Deg180, Deg360 \div tile_count)),
                 Min(f64_as_u32(Ceil(v.bounds.max_x + Deg180, Deg360 \div tile_count)),
                     tile_count - 1),
                 f64_as_u32(Ceil(Deg90 - v.bounds.max_y, Deg180 \div tile_count)),
                 Min(f64_as_u32(Ceil(Deg90 - v.bounds.min_y, Deg180 \div tile_count)),
                     tile_count - 1), z)

\* get_required_tiles: z = floor(zoom) as u8 (0 for NaN), nothing for z > 20;
\*   min_tile_x = floor((min_x + 180) / 360 * tile_count) as u32
\*   max_tile_x = ceil((max_x + 180) / 360 * tile_count) as u32
\*   min_tile_y = floor((1 - (max_y + 90) / 180) * tile_count) as u32
\*   max_tile_y = ceil((1 - (min_y + 90) / 180) * tile_count) as u32
\* with (c + 180) / 360 * tile_count written (c + 180) / (360 / tile_count) and
\* (1 - (c + 90) / 180) * tile_count written (90 - c) / (180 / tile_count)
get_required_tiles(v) ==
    LET z == zoom_as_u32(v.zoom)
        tile_count == Pow2(z)
        Min(a, b) == IF a < b THEN a ELSE b
        min_tile_x == f64_as_u32(Floor(v.bounds.min_x + Deg180, Deg360 \div tile_count))
        max_tile_x == f64_as_u32(Ceil(v.bounds.max_x + Deg180, Deg360 \div tile_count))
        min_tile_y == f64_as_u32(Floor(Deg90 - v.bounds.max_y, Deg180 \div tile_count))
        max_tile_y == f64_as_u32(Ceil(Deg90 - v.bounds.min_y, Deg180 \div tile_count))
    IN  IF z > MaxZoom THEN <<>>
        ELSE TileGrid(min_tile_x, Min(max_tile_x, tile_count - 1),
                      min_tile_y, Min(max_tile_y, tile_count - 1), z)

\* the GeoPoint of a Position <<x, y>>: latitude y, longitude x
QPointOf(position) == GeoPoint_new(QInt(position[2]), QInt(position[1]))

(***************************************************************************)
(* RenderContext and the free transform functions                          *)
(***************************************************************************)
\* RenderContext::new, as far as the coordinate transforms read it
RenderContext_new(viewport_bounds, canvas_size) ==
    [viewport_bounds |-> viewport_bounds, canvas_size |-> canvas_size]

\* the context of a render pass over v: its bounds and its pixel size as f64
ContextOf(v) == RenderContext_new(v.bounds, <<QInt(v.size.width), QInt(v.size.height)>>)

\* RenderContext::world_to_screen(context, x, y); no test for empty bounds
RenderContext_world_to_screen(context, x, y) ==
    LET bounds == context.viewport_bounds
        canvas_width == context.canvas_size[1]
        canvas_height == context.canvas_size[2]
        x_ratio == QDiv(QSub(x, QInt(bounds.min_x)), QInt(bounds.max_x - bounds.min_x))
        y_ratio == QDiv(QSub(y, QInt(bounds.min_y)), QInt(bounds.max_y - bounds.min_y))
        screen_x == QMul(x_ratio, canvas_width)
        screen_y == QSub(canvas_height, QMul(y_ratio, canvas_height))
    IN  <<screen_x, screen_y>>

\* transforms::screen_to_world(screen_pos, canvas_size, bounds); the result is
\* <<world_x, world_y>>
transforms_screen_to_world(screen_pos, canvas_size, bounds) ==
    LET screen_x == screen_pos[1]
        screen_y == screen_pos[2]
        canvas_width == canvas_size[1]
        canvas_height == canvas_size[2]
        x_ratio == QDiv(screen_x, canvas_width)
        y_ratio == QSub(QInt(1), QDiv(screen_y, canvas_height))
        world_x == QAdd(QInt(bounds.min_x), QMul(x_ratio, QInt(bounds.max_x - bounds.min_x)))
        world_y == QAdd(QInt(bounds.min_y), QMul(y_ratio, QInt(bounds.max_y - bounds.min_y)))
    IN  <<world_x, world_y>>

\* ---- the arguments callers pass ----
Centers ==
    {GeoPoint_new(0, 0), GeoPoint_new(Deg90, Deg180), GeoPoint_new(0 - Deg90, 0 - Deg180),
     GeoPoint_new(Deg90 + 1, 0), GeoPoint_new(0 - Deg90 - 1, 0),
     GeoPoint_new(0, Deg180 + 1), GeoPoint_new(0, 0 - Deg180 - 1),
     GeoPoint_new(NaN, 0), GeoPoint_new(0, NaN)}

Zooms == {0 - 1, 0, 1, ZoomDen, MaxZoom * ZoomDen, MaxZoom * ZoomDen + 1, NaN}

Sizes ==
    {PixelSize_new(1, 1), PixelSize_new(TilePixels, TilePixels), PixelSize_new(TilePixels, 1),
     PixelSize_new(0, 1), PixelSize_new(1, 0), PixelSize_new(0, 0)}

Rotations == {0, Deg45, NaN}

\* geographic points converted to pixels: two corners of the bounds and a
\* point off the viewport
WorldPoints(v) ==
    {GeoPoint_new(QInt(v.bounds.max_y), QInt(v.bounds.min_x)),
     GeoPoint_new(QInt(v.bounds.min_y), QInt(v.bounds.max_x)),
     GeoPoint_new(QInt(Deg45 + 3), QInt(0 - Deg90 - 5))}

\* pixel positions converted to geographic points
ScreenPoints(v) ==
    {<<QInt(0), QInt(0)>>,
     <<Frac(v.size.width, 2), Frac(v.size.height, 3)>>,
     <<QInt(0 - 3), QInt(700)>>}

VpCall(op, center, zoom, size, rotation) ==
    [op |-> op, center |-> center, zoom |-> zoom, size |-> size, rotation |-> rotation]

NoTiles == [op |-> "none", tiles |-> <<>>]

NoXf == [op |-> "none", in |-> 0, out |-> 0, back |-> 0, ctx_out |-> 0, ctx_back |-> 0]

InitViewport ==
    /\ vp_live = FALSE
    /\ viewport = NoViewport
    /\ vp_call = VpCall("none", NoViewport.center, 0, NoViewport.size, 0)
    /\ vp_ret = "none"
    /\ xf = NoXf
    /\ required = NoTiles

\* Viewport::new(center, zoom, size); one viewport is constructed
New(center, zoom, size) ==
    /\ vp_ret = "none"
    /\ LET r == Viewport_new(center, zoom, size) IN
         /\ vp_live' = r.ok
         /\ viewport' = r.v
         /\ vp_ret' = IF r.ok THEN "Ok" ELSE "Err"
    /\ vp_call' = VpCall("new", center, zoom, size, 0)
    /\ xf' = NoXf
    /\ required' = NoTiles
    /\ UNCHANGED cacheVars
    /\ UNCHANGED geoVars
    /\ UNCHANGED renderVars
    /\ UNCHANGED modelVars

Pan(new_center) ==
    /\ vp_live
    /\ LET r == pan(viewport, new_center) IN
         /\ viewport' = r.v
         /\ vp_ret' = IF r.ok THEN "Ok" ELSE "Err"
    /\ vp_call' = VpCall("pan", NoViewport.center, 0, NoViewport.size, 0)
    /\ xf' = NoXf
    /\ required' = NoTiles
    /\ UNCHANGED <<vp_live>>
    /\ UNCHANGED cacheVars
    /\ UNCHANGED geoVars
    /\ UNCHANGED renderVars
    /\ UNCHANGED modelVars

ZoomTo(new_zoom) ==
    /\ vp_live
    /\ LET r == zoom_to(viewport, new_zoom) IN
         /\ viewport' = r.v
         /\ vp_ret' = IF r.ok THEN "Ok" ELSE "Err"
    /\ vp_call' = VpCall("zoom_to", NoViewport.center, 0, NoViewport.size, 0)
    /\ xf' = NoXf
    /\ required' = NoTiles
    /\ UNCHANGED <<vp_live>>
    /\ UNCHANGED cacheVars
    /\ UNCHANGED geoVars
    /\ UNCHANGED renderVars
    /\ UNCHANGED modelVars

Resize(new_size) ==
    /\ vp_live
    /\ LET r == resize(viewport, new_size) IN
         /\ viewport' = r.v
         /\ vp_ret' = IF r.ok THEN "Ok" ELSE "Err"
    /\ vp_call' = VpCall("resize", NoViewport.center, 0, NoViewport.size, 0)
    /\ xf' = NoXf
    /\ required' = NoTiles
    /\ UNCHANGED <<vp_live>>
    /\ UNCHANGED cacheVars
    /\ UNCHANGED geoVars
    /\ UNCHANGED renderVars
    /\ UNCHANGED modelVars

Rotate(rotation) ==
    /\ vp_live
    /\ viewport' = rotate(viewport, rotation)
    /\ vp_ret' = "Ok"
    /\ vp_call' = VpCall("rotate", NoViewport.center, 0, NoViewport.size, 0)
    /\ xf' = NoXf
    /\ required' = NoTiles
    /\ UNCHANGED <<vp_live>>
    /\ UNCHANGED cacheVars
    /\ UNCHANGED geoVars
    /\ UNCHANGED renderVars
    /\ UNCHANGED modelVars

\* world_to_screen(point), and its result passed to screen_to_world; the same
\* through the render context of the viewport
WorldToScreen(point) ==
    /\ vp_live
    /\ LET out == Viewport_world_to_screen(viewport, point)
           context == ContextOf(viewport)
           ctx_out == RenderContext_world_to_screen(context, point.lng, point.lat)
       IN
         xf' = [op |-> "world_to_screen", in |-> point, out |-> out,
                back |-> Viewport_screen_to_world(viewport, out[1], out[2]),
                ctx_out |-> ctx_out,
                ctx_back |-> transforms_screen_to_world(ctx_out, context.canvas_size,
                                                         context.viewport_bounds)]
    /\ required' = NoTiles
    /\ UNCHANGED <<vp_live, viewport, vp_call, vp_ret>>
    /\ UNCHANGED cacheVars
    /\ UNCHANGED geoVars
    /\ UNCHANGED renderVars
    /\ UNCHANGED modelVars

\* screen_to_world(x, y), and its result passed to world_to_screen; the same
\* through the render context of the viewport
ScreenToWorld(x, y) ==
    /\ vp_live
    /\ LET out == Viewport_screen_to_world(viewport, x, y)
           context == ContextOf(viewport)
           ctx_out == transforms_screen_to_world(<<x, y>>, context.canvas_size,
                                                 context.viewport_bounds)
       IN
         xf' = [op |-> "screen_to_world", in |-> <<x, y>>, out |-> out,
                back |-> Viewport_world_to_screen(viewport, out),
                ctx_out |-> ctx_out,
                ctx_back |-> RenderContext_world_to_screen(context, ctx_out[1], ctx_out[2])]
    /\ required' = NoTiles
    /\ UNCHANGED <<vp_live, viewport, vp_call, vp_ret>>
    /\ UNCHANGED cacheVars
    /\ UNCHANGED geoVars
    /\ UNCHANGED renderVars
    /\ UNCHANGED modelVars

\* get_required_tiles()
GetRequiredTiles ==
    /\ vp_live
    /\ required' = [op |-> "get_required_tiles", tiles |-> get_required_tiles(viewport)]
    /\ xf' = NoXf
    /\ UNCHANGED <<vp_live, viewport, vp_call, vp_ret>>
    /\ UNCHANGED cacheVars
    /\ UNCHANGED geoVars
    /\ UNCHANGED renderVars
    /\ UNCHANGED modelVars

NextViewport ==
    \/ vp_ret = "none" /\ \E center \in Centers, zoom \in Zooms, size \in Sizes :
                              New(center, zoom, size)
    \/ vp_live /\ \E new_center \in Centers : Pan(new_center)
    \/ vp_live /\ \E new_zoom \in Zooms : ZoomTo(new_zoom)
    \/ vp_live /\ \E new_size \in Sizes : Resize(new_size)
    \/ vp_live /\ \E rotation \in Rotations : Rotate(rotation)
    \/ vp_live /\ \E point \in WorldPoints(viewport) : WorldToScreen(point)
    \/ vp_live /\ \E s \in ScreenPoints(viewport) : ScreenToWorld(s[1], s[2])
    \/ GetRequiredTiles

(***************************************************************************)
(* TileCache                                                               *)
(***************************************************************************)
TileIds == 1..NumIds

Readers == {"r1", "r2"}

TileStatus == {"NotLoaded", "Loading", "Loaded", "Error"}

\* a Tile as far as the cache is concerned: its status and its feature list
TileVals == [status : TileStatus, features : {<<>>, <<"f1">>}]

\* the three fields insert and evict_oldest write
CacheState == [tiles |-> tiles, access_order |-> access_order, current_size |-> current_size]

\* f without the key k (DashMap::remove; removing an absent key changes nothing)
MapRemove(f, k) == [j \in (DOMAIN f) \ {k} |-> f[j]]

\* evict_oldest: drops access_order's first id from the map and from the order
evict_oldest(c) ==
    IF c.access_order # <<>>
    THEN [tiles |-> MapRemove(c.tiles, Head(c.access_order)),
          access_order |-> Tail(c.access_order),
          current_size |-> c.current_size - 1]
    ELSE c

\* faulty variant: the new tile is stored and counted, and nothing makes room for it
insert_store_noevict(c, id, tile) ==
    [tiles |-> [j \in (DOMAIN c.tiles) \cup {id} |-> IF j = id THEN tile ELSE c.tiles[j]],
     access_order |-> Append(c.access_order, id),
     current_size |-> c.current_size + 1]

\* insert: the fields as the call leaves them. The eviction future is taken as
\* driven to completion; what follows it is todo!(), which stores nothing.
insert(c, id, tile) ==
    IF c.current_size >= max_size THEN evict_oldest(c) ELSE c

\* get: Some(copy of the tile) or None; no field is written
get(id) ==
    IF id \in DOMAIN tiles
    THEN [op |-> "get", kind |-> "Some", val |-> tiles[id]]
    ELSE [op |-> "get", kind |-> "None", val |-> 0]

memory_usage == current_size

NoReader == [r \in Readers |-> 0]

\* TileCache::new(n) for n in 0..MaxCap; access_order, which new leaves out of
\* the struct literal, starts empty
InitCache ==
    /\ tiles = << >>
    /\ access_order = << >>
    /\ max_size \in 0..MaxCap
    /\ current_size = 0
    /\ reading = NoReader
    /\ calls = << >>
    /\ cache_ret = [op |-> "new", kind |-> "Ok", val |-> 0]

\* faulty variant: a get of an absent id leaves a NotLoaded tile under it
Get_or_insert(id) ==
    /\ Len(calls) < MaxCalls
    /\ reading = NoReader
    /\ calls' = Append(calls, <<"get", id>>)
    /\ cache_ret' = get(id)
    /\ tiles' = [j \in (DOMAIN tiles) \cup {id} |->
                    IF j \in DOMAIN tiles THEN tiles[j]
                    ELSE [status |-> "NotLoaded", features |-> <<>>]]
    /\ UNCHANGED <<access_order, max_size, current_size, reading>>
    /\ UNCHANGED viewportVars
    /\ UNCHANGED geoVars
    /\ UNCHANGED renderVars
    /\ UNCHANGED modelVars

\* a whole get call
Get(id) ==
    /\ Len(calls) < MaxCalls
    /\ reading = NoReader
    /\ calls' = Append(calls, <<"get", id>>)
    /\ cache_ret' = get(id)
    /\ UNCHANGED <<tiles, access_order, max_size, current_size, reading>>
    /\ UNCHANGED viewportVars
    /\ UNCHANGED geoVars
    /\ UNCHANGED renderVars
    /\ UNCHANGED modelVars

\* a whole insert call; it takes &mut self, so no get is in flight
Insert(id, tile) ==
    /\ Len(calls) < MaxCalls
    /\ reading = NoReader
    /\ LET c == insert(CacheState, id, tile) IN
         /\ tiles' = c.tiles
         /\ access_order' = c.access_order
         /\ current_size' = c.current_size
    /\ calls' = Append(calls, <<"insert", id>>)
    /\ cache_ret' = [op |-> "insert", kind |-> "Panic", val |-> 0]
    /\ UNCHANGED <<max_size, reading>>
    /\ UNCHANGED viewportVars
    /\ UNCHANGED geoVars
    /\ UNCHANGED renderVars
    /\ UNCHANGED modelVars

\* a reader's get, first half: the shared borrow is taken and the id looked up
GetBegin(r, id) ==
    /\ Len(calls) < MaxCalls
    /\ reading[r] = 0
    /\ reading' = [reading EXCEPT ![r] = id]
    /\ calls' = Append(calls, <<"get", id>>)
    /\ UNCHANGED <<tiles, access_order, max_size, current_size, cache_ret>>
    /\ UNCHANGED viewportVars
    /\ UNCHANGED geoVars
    /\ UNCHANGED renderVars
    /\ UNCHANGED modelVars

\* a reader's get, second half: the entry is cloned and the borrow released
GetEnd(r) ==
    /\ reading[r] # 0
    /\ cache_ret' = get(reading[r])
    /\ reading' = [reading EXCEPT ![r] = 0]
    /\ UNCHANGED <<tiles, access_order, max_size, current_size, calls>>
    /\ UNCHANGED viewportVars
    /\ UNCHANGED geoVars
    /\ UNCHANGED renderVars
    /\ UNCHANGED modelVars

NextCache ==
    \/ \E id \in TileIds : Get(id)
    \/ \E id \in TileIds, tile \in TileVals : Insert(id, tile)

NextCacheConc ==
    \/ \E r \in Readers, id \in TileIds : GetBegin(r, id)
    \/ \E r \in Readers : GetEnd(r)
    \/ \E id \in TileIds, tile \in TileVals : Insert(id, tile)

(***************************************************************************)
(* The canvas renderers (engine/renderer.rs). A canvas call is recorded as *)
(* its name, the MapStyle field it is given (or ""), its x and y (or 0)    *)
(* and whether it returned normally; arc is the one call that can fail.    *)
(***************************************************************************)
\* number of render calls made in one behaviour
MaxRenders == 2

Call(op, style, x, y) == [op |-> op, style |-> style, x |-> x, y |-> y, ok |-> TRUE]

\* a function's outcome: its Result and the canvas calls it made
Done(ok, issued) == [ok |-> ok, calls |-> issued]

\* faulty variant: the remaining points are drawn after an arc has failed
render_points_continue(points, fail_at) ==
    LET one(i) == IF i = fail_at
                  THEN <<Call("begin_path", "", QInt(0), QInt(0)),
                         [Call("arc", "point_radius", points[i][1], points[i][2])
                            EXCEPT !.ok = FALSE]>>
                  ELSE <<Call("begin_path", "", QInt(0), QInt(0)),
                         Call("arc", "point_radius", points[i][1], points[i][2]),
                         Call("fill", "", QInt(0), QInt(0))>>
        RECURSIVE upto(_)
        upto(i) == IF i = 0 THEN <<>> ELSE upto(i - 1) \o one(i)
    IN  Done(fail_at \notin 1..Len(points),
             <<Call("set_fill_style_str", "point_color", QInt(0), QInt(0))>>
                \o upto(Len(points)))

\* render_single_point(x, y, radius, context): begin_path, arc (`?` returns its
\* error), fill
render_single_point(x, y, fails) ==
    IF fails
    THEN Done(FALSE, <<Call("begin_path", "", QInt(0), QInt(0)),
                        [Call("arc", "point_radius", x, y) EXCEPT !.ok = FALSE]>>)
    ELSE Done(TRUE, <<Call("begin_path", "", QInt(0), QInt(0)),
                       Call("arc", "point_radius", x, y),
                       Call("fill", "", QInt(0), QInt(0))>>)

\* render_points(points, render_context, canvas_context), where the fail_at-th
\* arc call fails (none for 0): the fill style is set, then the points are drawn
\* one by one until one returns an error (collect into a Result stops there)
render_points(points, fail_at) ==
    LET RECURSIVE from(_)
        from(i) ==
            IF i > Len(points) THEN Done(TRUE, <<>>)
            ELSE LET r == render_single_point(points[i][1], points[i][2], i = fail_at) IN
                 IF ~r.ok THEN r
                 ELSE LET rest == from(i + 1) IN Done(rest.ok, r.calls \o rest.calls)
        all == from(1)
    IN  Done(all.ok, <<Call("set_fill_style_str", "point_color", QInt(0), QInt(0))>>
                        \o all.calls)

\* draw_path(points, context): begin_path, move_to the first point, line_to each
\* of the others; nothing for no points
draw_path(points) ==
    IF points = <<>> THEN Done(TRUE, <<>>)
    ELSE Done(TRUE, <<Call("begin_path", "", QInt(0), QInt(0)),
                      Call("move_to", "", points[1][1], points[1][2])>>
                    \o [i \in 1..(Len(points) - 1) |->
                            Call("line_to", "", points[i + 1][1], points[i + 1][2])])

\* render_linestring(points, render_context, canvas_context)
render_linestring(points) ==
    IF points = <<>> THEN Done(TRUE, <<>>)
    ELSE Done(TRUE, <<Call("set_stroke_style_str", "line_color", QInt(0), QInt(0)),
                      Call("set_line_width", "line_width", QInt(0), QInt(0))>>
                    \o draw_path(points).calls
                    \o <<Call("stroke", "", QInt(0), QInt(0))>>)

\* faulty variant: the outline is stroked before the path is closed and filled
render_polygon_strokefirst(points) ==
    IF points = <<>> THEN Done(TRUE, <<>>)
    ELSE Done(TRUE, <<Call("set_fill_style_str", "polygon_fill", QInt(0), QInt(0)),
                      Call("set_stroke_style_str", "polygon_stroke", QInt(0), QInt(0)),
                      Call("set_line_width", "line_width", QInt(0), QInt(0))>>
                    \o draw_path(points).calls
                    \o <<Call("stroke", "", QInt(0), QInt(0)),
                         Call("close_path", "", QInt(0), QInt(0)),
                         Call("fill", "", QInt(0), QInt(0))>>)

\* render_polygon(points, render_context, canvas_context)
render_polygon(points) ==
    IF points = <<>> THEN Done(TRUE, <<>>)
    ELSE Done(TRUE, <<Call("set_fill_style_str", "polygon_fill", QInt(0), QInt(0)),
                      Call("set_stroke_style_str", "polygon_stroke", QInt(0), QInt(0)),
                      Call("set_line_width", "line_width", QInt(0), QInt(0))>>
                    \o draw_path(points).calls
                    \o <<Call("close_path", "", QInt(0), QInt(0)),
                         Call("fill", "", QInt(0), QInt(0)),
                         Call("stroke", "", QInt(0), QInt(0))>>)

\* ---- the screen coordinates callers pass ----
ScreenA == <<QInt(0), QInt(0)>>

ScreenB == <<QInt(3), QInt(4)>>

ScreenC == <<Frac(1, 2), QInt(0 - 7)>>

PointLists ==
    {<<>>, <<ScreenA>>, <<ScreenA, ScreenB>>, <<ScreenB, ScreenA>>,
     <<ScreenA, ScreenB, ScreenC>>, <<ScreenA, ScreenB, ScreenC, ScreenA>>}

RenderCall(op, args, fail_at) ==
    [op |-> op, args |-> args, fail_at |-> fail_at, mark |-> Len(surface)]

InitRender ==
    /\ surface = <<>>
    /\ requests = <<>>
    /\ render_call = [op |-> "none", args |-> <<>>, fail_at |-> 0, mark |-> 0]
    /\ render_ret = "none"
    /\ renders = 0

\* a renderer is called on the canvas: its calls are made on the surface
Rendered(op, args, fail_at, r) ==
    /\ renders' = renders + 1
    /\ surface' = surface \o r.calls
    /\ render_call' = RenderCall(op, args, fail_at)
    /\ render_ret' = IF r.ok THEN "Ok" ELSE "Err"
    /\ requests' = <<>>
    /\ UNCHANGED cacheVars
    /\ UNCHANGED viewportVars
    /\ UNCHANGED geoVars
    /\ UNCHANGED modelVars

RenderPoints(points, fail_at) ==
    /\ renders < MaxRenders
    /\ Rendered("render_points", points, fail_at, render_points(points, fail_at))

RenderLinestring(points) ==
    /\ renders < MaxRenders
    /\ Rendered("render_linestring", points, 0, render_linestring(points))

RenderPolygon(points) ==
    /\ renders < MaxRenders
    /\ Rendered("render_polygon", points, 0, render_polygon(points))

NextSurface ==
    \/ \E points \in PointLists : \E fail_at \in 0..Len(points) :
            RenderPoints(points, fail_at)
    \/ \E points \in PointLists : RenderLinestring(points)
    \/ \E points \in PointLists : RenderPolygon(points)

(***************************************************************************)
(* The render pipeline (engine/mod.rs, engine/geometry.rs). A geojson      *)
(* Geometry is [type, value] with value the coordinates of that type; a    *)
(* Position is <<x, y>> (longitude, latitude) in geographic units, or NaN. *)
(* A pipeline function's outcome is its Result, the canvas calls it made   *)
(* and the closures it handed to render_with_canvas.                       *)
(***************************************************************************)
\* every feature list of up to MaxFeatures features is given to render_features
MaxFeatures == 2

Some(v) == [some |-> TRUE, v |-> v]

None == [some |-> FALSE, v |-> <<>>]

\* an f64 that is not finite, as a quotient
QNaN == <<0, 0>>

Passed(ok, issued, handed) == [ok |-> ok, calls |-> issued, requests |-> handed]

\* the closure `|canvas_ctx| renderer::<renderer>(&coords, context, canvas_ctx)`
RenderFn(renderer, coords) == [renderer |-> renderer, coords |-> coords]

\* transform_position: RenderContext::world_to_screen of position[0], position[1];
\* a coordinate that is NaN gives a NaN pixel coordinate
transform_position(context, position) ==
    LET x == position[1]
        y == position[2]
        screen == RenderContext_world_to_screen(context,
                      QInt(IF x = NaN THEN 0 ELSE x), QInt(IF y = NaN THEN 0 ELSE y))
    IN  <<IF x = NaN THEN QNaN ELSE screen[1], IF y = NaN THEN QNaN ELSE screen[2]>>

\* transform_coordinates(context)(positions)
transform_coordinates(context, positions) ==
    [i \in 1..Len(positions) |-> transform_position(context, positions[i])]

extract_point_coordinates(geometry) ==
    IF geometry.type = "Point" THEN Some(<<geometry.value>>) ELSE None

extract_linestring_coordinates(geometry) ==
    IF geometry.type = "LineString" THEN Some(geometry.value) ELSE None

extract_polygon_coordinates(geometry) ==
    IF geometry.type = "Polygon" THEN Some(geometry.value) ELSE None

extract_multipoint_coordinates(geometry) ==
    IF geometry.type = "MultiPoint" THEN Some(geometry.value) ELSE None

extract_multilinestring_coordinates(geometry) ==
    IF geometry.type = "MultiLineString" THEN Some(geometry.value) ELSE None

extract_multipolygon_coordinates(geometry) ==
    IF geometry.type = "MultiPolygon" THEN Some(geometry.value) ELSE None

\* validate_coordinates(coords): every x and y is finite (no caller in the pipeline)
validate_coordinates(coords) ==
    \A i \in 1..Len(coords) : coords[i][1][2] # 0 /\ coords[i][2][2] # 0

\* create_coordinate_transformer(context)(geometry)
create_coordinate_transformer(context, geometry) ==
    LET over(extracted) ==
            IF extracted.some THEN Some(transform_coordinates(context, extracted.v))
            ELSE None
    IN  CASE geometry.type = "Point" -> over(extract_point_coordinates(geometry))
          [] geometry.type = "LineString" -> over(extract_linestring_coordinates(geometry))
          [] geometry.type = "MultiPoint" -> over(extract_multipoint_coordinates(geometry))
          [] OTHER -> None

\* create_polygon_transformer(context)(geometry): the first ring, transformed
create_polygon_transformer(context, geometry) ==
    LET rings == extract_polygon_coordinates(geometry) IN
    IF rings.some /\ rings.v # <<>>
    THEN Some(transform_coordinates(context, rings.v[1]))
    ELSE None

\* render_with_canvas(_context, _render_fn): returns Ok(()) and does not call
\* _render_fn, so no canvas call is made
render_with_canvas(context, render_fn) == Passed(TRUE, <<>>, <<render_fn>>)

\* `.map(f).collect::<Result<Vec<_>, _>>().map(|_| ())`, given what f does on
\* each item: f is applied in order and no further once it has returned an error
RECURSIVE CollectFrom(_, _)
CollectFrom(outcomes, i) ==
    IF i > Len(outcomes) THEN Passed(TRUE, <<>>, <<>>)
    ELSE IF ~outcomes[i].ok THEN outcomes[i]
    ELSE LET rest == CollectFrom(outcomes, i + 1) IN
         Passed(rest.ok, outcomes[i].calls \o rest.calls,
                outcomes[i].requests \o rest.requests)

Collect(outcomes) == CollectFrom(outcomes, 1)

render_point_geometry(geometry, context) ==
    LET coords == create_coordinate_transformer(context, geometry) IN
    IF coords.some THEN render_with_canvas(context, RenderFn("render_points", coords.v))
    ELSE Passed(TRUE, <<>>, <<>>)

render_linestring_geometry(geometry, context) ==
    LET coords == create_coordinate_transformer(context, geometry) IN
    IF coords.some THEN render_with_canvas(context, RenderFn("render_linestring", coords.v))
    ELSE Passed(TRUE, <<>>, <<>>)

render_polygon_geometry(geometry, context) ==
    LET coords == create_polygon_transformer(context, geometry) IN
    IF coords.some THEN render_with_canvas(context, RenderFn("render_polygon", coords.v))
    ELSE Passed(TRUE, <<>>, <<>>)

render_multipoint_geometry(geometry, context) ==
    LET positions == extract_multipoint_coordinates(geometry) IN
    IF positions.some
    THEN render_with_canvas(context,
             RenderFn("render_points", transform_coordinates(context, positions.v)))
    ELSE Passed(TRUE, <<>>, <<>>)

render_multilinestring_geometry(geometry, context) ==
    LET line_strings == extract_multilinestring_coordinates(geometry)
        line(i) == render_with_canvas(context,
                       RenderFn("render_linestring",
                                transform_coordinates(context, line_strings.v[i])))
    IN  IF line_strings.some THEN Collect([i \in 1..Len(line_strings.v) |-> line(i)])
        ELSE Passed(TRUE, <<>>, <<>>)

\* render_multipolygon_geometry: the first ring of every polygon that has one
render_multipolygon_geometry(geometry, context) ==
    LET polygons == extract_multipolygon_coordinates(geometry)
        outer_rings == SelectSeq(polygons.v, LAMBDA rings : rings # <<>>)
        outer(i) == render_with_canvas(context,
                        RenderFn("render_polygon",
                                 transform_coordinates(context, outer_rings[i][1])))
    IN  IF polygons.some THEN Collect([i \in 1..Len(outer_rings) |-> outer(i)])
        ELSE Passed(TRUE, <<>>, <<>>)

\* render_geometry: dispatch on the geometry's type
RECURSIVE render_geometry(_, _)
render_geometry(geometry, context) ==
    CASE geometry.type = "Point" -> render_point_geometry(geometry, context)
      [] geometry.type = "LineString" -> render_linestring_geometry(geometry, context)
      [] geometry.type = "Polygon" -> render_polygon_geometry(geometry, context)
      [] geometry.type = "MultiPoint" -> render_multipoint_geometry(geometry, context)
      [] geometry.type = "MultiLineString" ->
            render_multilinestring_geometry(geometry, context)
      [] geometry.type = "MultiPolygon" -> render_multipolygon_geometry(geometry, context)
      [] geometry.type = "GeometryCollection" ->
            Collect([i \in 1..Len(geometry.value) |->
                        render_geometry(geometry.value[i], context)])

\* render_single_feature: a feature without geometry renders nothing
render_single_feature(feature, context) ==
    IF feature.geometry.some THEN render_geometry(feature.geometry.v, context)
    ELSE Passed(TRUE, <<>>, <<>>)

\* faulty variant: the features are rendered last to first
render_features_reversed(features, context) ==
    Collect([i \in 1..Len(features) |->
                render_single_feature(features[Len(features) + 1 - i], context)])

\* render_features(features, context)
render_features(features, context) ==
    Collect([i \in 1..Len(features) |-> render_single_feature(features[i], context)])

\* ---- transform_position against Viewport::world_to_screen ----
\* bounds that are empty on both axes, on one axis, inverted, and not empty
TransformBounds ==
    {GeoBounds_new(0, 0, 0, 0), GeoBounds_new(0, 0, 0, 4), GeoBounds_new(0, 0, 4, 0),
     GeoBounds_new(4, 4, 0, 0), GeoBounds_new(0, 0, 4, 4), GeoBounds_new(0 - 8, 0 - 4, 8, 4)}

TransformSizes == {PixelSize_new(1, 1), PixelSize_new(800, 600)}

TransformCenters == {GeoPoint_new(0, 0), GeoPoint_new(2, 1)}

TransformPositions == {<<0, 0>>, <<1, 3>>, <<0 - 5, 2>>, <<4, 4>>}

TransformPixels == {<<QInt(0), QInt(0)>>, <<QInt(3), QInt(4)>>, <<QInt(0 - 1), QInt(700)>>}

\* a Viewport of the given fields (all of them are pub)
ViewportOf(center, size, bounds) ==
    [center |-> center, zoom |-> 0, rotation |-> 0, size |-> size, bounds |-> bounds,
     pixel_bounds |-> PixelBounds_new(0, 0, size.width, size.height)]

\* a position goes to pixels through Viewport::world_to_screen and, under the
\* context of the same bounds and size, through transform_position
PositionToScreen(v, position) ==
    /\ xf.op = "none" /\ ~vp_live
    /\ viewport' = v
    /\ xf' = [op |-> "position_to_screen", in |-> position,
              out |-> Viewport_world_to_screen(v, QPointOf(position)),
              back |-> 0,
              ctx_out |-> transform_position(ContextOf(v), position),
              ctx_back |-> 0]
    /\ UNCHANGED <<vp_live, vp_call, vp_ret, required>>
    /\ UNCHANGED cacheVars
    /\ UNCHANGED geoVars
    /\ UNCHANGED renderVars
    /\ UNCHANGED modelVars

\* a pixel position goes to a geographic point through Viewport::screen_to_world
PixelToWorld(v, pixel) ==
    /\ xf.op = "none" /\ ~vp_live
    /\ viewport' = v
    /\ xf' = [op |-> "pixel_to_world", in |-> pixel,
              out |-> Viewport_screen_to_world(v, pixel[1], pixel[2]),
              back |-> 0,
              ctx_out |-> transforms_screen_to_world(pixel, ContextOf(v).canvas_size, v.bounds),
              ctx_back |-> 0]
    /\ UNCHANGED <<vp_live, vp_call, vp_ret, required>>
    /\ UNCHANGED cacheVars
    /\ UNCHANGED geoVars
    /\ UNCHANGED renderVars
    /\ UNCHANGED modelVars

NextTransform ==
    \/ (xf.op = "none" /\ ~vp_live) /\
            \E center \in TransformCenters, size \in TransformSizes,
               bounds \in TransformBounds, position \in TransformPositions :
                PositionToScreen(ViewportOf(center, size, bounds), position)
    \/ (xf.op = "none" /\ ~vp_live) /\
            \E center \in TransformCenters, size \in TransformSizes,
               bounds \in TransformBounds, pixel \in TransformPixels :
                PixelToWorld(ViewportOf(center, size, bounds), pixel)

\* ---- the context and the features callers pass ----
\* the context of a render pass: an 800 x 600 canvas over the bounds of a
\* viewport at zoom 15
PassContext ==
    ContextOf(Viewport_new(GeoPoint_new(Deg45 \div 2, Deg45 \div 4), 15 * ZoomDen,
                           PixelSize_new(800, 600)).v)

\* positions: the centre of the bounds, a point next to it, the top-left
\* corner, and one with a longitude that is not a number
PosA == <<Deg45 \div 4, Deg45 \div 2>>

PosB == <<PosA[1] + 64, PosA[2] + 32>>

PosC == <<PassContext.viewport_bounds.min_x, PassContext.viewport_bounds.max_y>>

PosBad == <<NaN, PosA[2]>>

Geometry(type, value) == [type |-> type, value |-> value]

Feature(geometry) == [geometry |-> geometry]

ExteriorA == <<PosA, PosB, PosC, PosA>>

ExteriorB == <<PosC, PosB, PosA, PosC>>

HoleRing == <<PosB, PosB, PosB, PosB>>

\* the features a list is made of, by number
Catalogue ==
    << Feature(Some(Geometry("Point", PosA))),
       Feature(Some(Geometry("Point", PosB))),
       Feature(Some(Geometry("Point", PosC))),
       Feature(Some(Geometry("LineString", <<PosA, PosB>>))),
       Feature(Some(Geometry("LineString", <<PosA, PosBad>>))),
       Feature(Some(Geometry("Polygon", <<ExteriorA, HoleRing>>))),
       Feature(Some(Geometry("Polygon", <<>>))),
       Feature(Some(Geometry("MultiPoint", <<PosB, PosC>>))),
       Feature(Some(Geometry("MultiLineString", <<<<PosA, PosB>>, <<PosC, PosA>>>>))),
       Feature(Some(Geometry("MultiPolygon",
                             <<<<ExteriorA, HoleRing>>, <<>>, <<ExteriorB>>>>))),
       Feature(Some(Geometry("GeometryCollection",
                             <<Geometry("Point", PosC),
                               Geometry("GeometryCollection",
                                        <<Geometry("LineString", <<PosB, PosC>>)>>),
                               Geometry("Point", PosA)>>))),
       Feature(None) >>

\* every short list, and some longer ones: three points, a feature in error
\* between two points, multi-part geometries around a collection
FeatureLists ==
    UNION {[1..n -> 1..Len(Catalogue)] : n \in 0..MaxFeatures}
        \cup {<<1, 2, 3>>, <<1, 5, 2>>, <<9, 11, 10>>, <<6, 12, 7, 8>>}

FeaturesOf(ids) == [i \in 1..Len(ids) |-> Catalogue[ids[i]]]

\* a render pass: render_features on the features numbered ids
Pass(ids) ==
    LET r == render_features(FeaturesOf(ids), PassContext) IN
    /\ renders' = renders + 1
    /\ surface' = surface \o r.calls
    /\ requests' = r.requests
    /\ render_call' = RenderCall("render_features", ids, 0)
    /\ render_ret' = IF r.ok THEN "Ok" ELSE "Err"
    /\ UNCHANGED cacheVars
    /\ UNCHANGED viewportVars
    /\ UNCHANGED geoVars
    /\ UNCHANGED modelVars

\* the first render pass of a behaviour
RenderFeatures(ids) ==
    /\ renders = 0
    /\ Pass(ids)

\* the same list is rendered again under the same context
RenderAgain ==
    /\ render_call.op = "render_features"
    /\ renders < MaxRenders
    /\ Pass(render_call.args)

NextRender ==
    \/ renders = 0 /\ \E ids \in FeatureLists : RenderFeatures(ids)
    \/ RenderAgain

(***************************************************************************)
(* FeatureGeometry (model/mod.rs): [kind, v] with v a GeoPoint, a list of  *)
(* GeoPoints, a list of rings or a list of polygons                        *)
(***************************************************************************)
\* longest ring given to is_valid
MaxRing == 4

\* f64 ==
FEq(a, b) == a # NaN /\ b # NaN /\ a = b

\* GeoPoint's derived PartialEq
GeoPoint_eq(p, q) == FEq(p.lat, q.lat) /\ FEq(p.lng, q.lng)

FeatureGeometry(kind, v) == [kind |-> kind, v |-> v]

\* the ring test of the Polygon and MultiPolygon arms of is_valid
ring_is_valid(ring) ==
    /\ Len(ring) >= 4
    /\ \A i \in 1..Len(ring) : GeoPoint_is_valid(ring[i])
    /\ GeoPoint_eq(ring[1], ring[Len(ring)])

\* faulty variant: rings of three points are let through
FeatureGeometry_is_valid_len3(g) ==
    LET ring3(ring) == /\ Len(ring) >= 3
                       /\ \A i \in 1..Len(ring) : GeoPoint_is_valid(ring[i])
                       /\ GeoPoint_eq(ring[1], ring[Len(ring)])
    IN  CASE g.kind = "Polygon" ->
                g.v # <<>> /\ \A r \in 1..Len(g.v) : ring3(g.v[r])
          [] g.kind = "MultiPolygon" ->
                /\ g.v # <<>>
                /\ \A k \in 1..Len(g.v) :
                      g.v[k] # <<>> /\ \A r \in 1..Len(g.v[k]) : ring3(g.v[k][r])
          [] g.kind = "Point" -> GeoPoint_is_valid(g.v)
          [] OTHER -> g.v # <<>>

\* FeatureGeometry::is_valid
FeatureGeometry_is_valid(g) ==
    CASE g.kind = "Point" -> GeoPoint_is_valid(g.v)
      [] g.kind \in {"LineString", "MultiPoint"} ->
            g.v # <<>> /\ \A i \in 1..Len(g.v) : GeoPoint_is_valid(g.v[i])
      [] g.kind = "Polygon" ->
            g.v # <<>> /\ \A r \in 1..Len(g.v) : ring_is_valid(g.v[r])
      [] g.kind = "MultiLineString" ->
            /\ g.v # <<>>
            /\ \A l \in 1..Len(g.v) :
                  g.v[l] # <<>> /\ \A i \in 1..Len(g.v[l]) : GeoPoint_is_valid(g.v[l][i])
      [] g.kind = "MultiPolygon" ->
            /\ g.v # <<>>
            /\ \A k \in 1..Len(g.v) :
                  g.v[k] # <<>> /\ \A r \in 1..Len(g.v[k]) : ring_is_valid(g.v[k][r])

\* ---- the geometries callers pass ----
\* two valid points, one with a latitude past the pole, one with a NaN latitude
RingPoints ==
    {GeoPoint_new(0, 0), GeoPoint_new(Deg45, Deg90),
     GeoPoint_new(Deg90 + 1, 0), GeoPoint_new(NaN, 0)}

Rings == UNION {[1..n -> RingPoints] : n \in 0..MaxRing}

\* a closed ring of valid points, one of three points, an open one, one through
\* an invalid point
SomeRings ==
    {<<GeoPoint_new(0, 0), GeoPoint_new(Deg45, Deg90), GeoPoint_new(Deg45, Deg90),
       GeoPoint_new(0, 0)>>,
     <<GeoPoint_new(0, 0), GeoPoint_new(Deg45, Deg90), GeoPoint_new(0, 0)>>,
     <<GeoPoint_new(0, 0), GeoPoint_new(0, 0), GeoPoint_new(0, 0),
       GeoPoint_new(Deg45, Deg90)>>,
     <<GeoPoint_new(0, 0), GeoPoint_new(Deg90 + 1, 0), GeoPoint_new(0, 0),
       GeoPoint_new(0, 0)>>}

\* polygons of no ring, of any one ring, of two rings
Polygons ==
    {<<>>} \cup {<<ring>> : ring \in Rings}
           \cup {<<ring, hole>> : ring \in SomeRings, hole \in SomeRings}

SomePolygons ==
    {<<>>} \cup {<<ring>> : ring \in SomeRings}
           \cup {<<ring, hole>> : ring \in SomeRings, hole \in SomeRings}

MultiPolygons ==
    {<<>>} \cup {<<polygon>> : polygon \in SomePolygons}
           \cup {<<polygon, other>> : polygon \in SomePolygons, other \in SomePolygons}

InitChecked == checked = [op |-> "none", geometry |-> FeatureGeometry("Point", GeoPoint_new(0, 0)),
                         valid |-> FALSE]

\* geometry.is_valid()
IsValid(g) ==
    /\ checked' = [op |-> "is_valid", geometry |-> g, valid |-> FeatureGeometry_is_valid(g)]
    /\ UNCHANGED geo
    /\ UNCHANGED cacheVars
    /\ UNCHANGED viewportVars
    /\ UNCHANGED renderVars
    /\ UNCHANGED modelVars

\* latitudes and longitudes on, just inside, just outside and well outside
\* the limits (135 and 225 degrees), and NaN
Latitudes ==
    {0 - Deg90 - Deg45, 0 - Deg90 - 1, 0 - Deg90, 1 - Deg90, 0, Deg90 - 1, Deg90,
     Deg90 + 1, Deg90 + Deg45, NaN}

Longitudes ==
    {0 - Deg180 - Deg45, 0 - Deg180 - 1, 0 - Deg180, 1 - Deg180, 0, Deg180 - 1, Deg180,
     Deg180 + 1, Deg180 + Deg45, NaN}

\* point.is_valid()
GeoPointIsValid(point) ==
    /\ checked.op = "none"
    /\ checked' = [op |-> "GeoPoint_is_valid", geometry |-> FeatureGeometry("Point", point),
                   valid |-> GeoPoint_is_valid(point)]
    /\ UNCHANGED geo
    /\ UNCHANGED cacheVars
    /\ UNCHANGED viewportVars
    /\ UNCHANGED renderVars
    /\ UNCHANGED modelVars

PointIsValid(point) == checked.op = "none" /\ IsValid(FeatureGeometry("Point", point))

PointsAreValid(kind, points) == checked.op = "none" /\ IsValid(FeatureGeometry(kind, points))

LinesAreValid(lines) ==
    checked.op = "none" /\ IsValid(FeatureGeometry("MultiLineString", lines))

PolygonIsValid(rings) == checked.op = "none" /\ IsValid(FeatureGeometry("Polygon", rings))

MultiPolygonIsValid(polygons) ==
    checked.op = "none" /\ IsValid(FeatureGeometry("MultiPolygon", polygons))

NextGeometry ==
    \/ checked.op = "none" /\ \E point \in RingPoints : PointIsValid(point)
    \/ checked.op = "none" /\ \E lat \in Latitudes, lng \in Longitudes :
            GeoPointIsValid(GeoPoint_new(lat, lng))
    \/ checked.op = "none" /\ \E kind \in {"LineString", "MultiPoint"}, points \in SomeRings \cup {<<>>} :
            PointsAreValid(kind, points)
    \/ checked.op = "none" /\ \E lines \in SomePolygons : LinesAreValid(lines)
    \/ checked.op = "none" /\ \E rings \in Polygons : PolygonIsValid(rings)
    \/ checked.op = "none" /\ \E polygons \in MultiPolygons : MultiPolygonIsValid(polygons)

(***************************************************************************)
(* Tile. Tile bounds and the bounds of the features offered to a tile are  *)
(* in units of 1/2^20, which keeps the tile size of every zoom level 0..20 *)
(* exact; last_accessed (a clock reading no operation here reads) is left  *)
(* out of the record.                                                      *)
(***************************************************************************)
MaxAdds == 3

\* 1.0 in these units
TileUnit == Pow2(MaxZoom)

\* f64::INFINITY and f64::NEG_INFINITY, as integers beyond every coordinate
Infinity == 2147483646

NegInfinity == 0 - Infinity

\* 1u32 << z on a u8 z: for z >= 32 a debug build panics and a release build
\* shifts by z % 32
Shl1(z, build) ==
    IF z < 32 THEN [kind |-> "Ok", val |-> Pow2(z)]
    ELSE IF build = "debug" THEN [kind |-> "Panic", val |-> 0]
    ELSE [kind |-> "Ok", val |-> Pow2(z % 32)]

TileBounds_from_tile_coords(x, y, z) ==
    LET tile_size == TileUnit \div Pow2(z)
        min_x == x * tile_size
        min_y == y * tile_size
    IN  [min_x |-> min_x, min_y |-> min_y,
         max_x |-> min_x + tile_size, max_y |-> min_y + tile_size]

NoTile == [kind |-> "NoTile"]

\* Tile::new: panics for z > 20; x and y are stored as given
Tile_new(x, y, z) ==
    IF z > MaxZoom THEN [kind |-> "Panic", tile |-> NoTile]
    ELSE [kind |-> "Ok",
          tile |-> [kind |-> "Tile", x |-> x, y |-> y, z |-> z,
                    bounds |-> TileBounds_from_tile_coords(x, y, z),
                    features |-> <<>>, status |-> "NotLoaded"]]

is_valid_for_zoom(self, z, build) ==
    LET max_coord == Shl1(z, build)
    IN  IF max_coord.kind = "Panic" THEN [kind |-> "Panic", val |-> FALSE]
        ELSE [kind |-> "Ok",
              val |-> self.x < max_coord.val /\ self.y < max_coord.val /\ self.z = z]

\* the points calculate_bounds visits
PointsOf(g) ==
    CASE g.kind = "Point" -> {g.v}
      [] g.kind \in {"LineString", "MultiPoint"} -> {g.v[i] : i \in 1..Len(g.v)}
      [] g.kind \in {"Polygon", "MultiLineString"} ->
            UNION {{g.v[r][i] : i \in 1..Len(g.v[r])} : r \in 1..Len(g.v)}
      [] g.kind = "MultiPolygon" ->
            UNION {UNION {{g.v[k][r][i] : i \in 1..Len(g.v[k][r])} : r \in 1..Len(g.v[k])}
                     : k \in 1..Len(g.v)}

\* init.min(v1).min(v2)... over the values in vs: f64::min and f64::max return
\* the other operand when one is NaN, so NaN values leave the result as it is
f64_min(init, vs) ==
    LET numbers == {v \in vs : v # NaN} \cup {init}
    IN  CHOOSE m \in numbers : \A v \in numbers : m <= v

f64_max(init, vs) ==
    LET numbers == {v \in vs : v # NaN} \cup {init}
    IN  CHOOSE m \in numbers : \A v \in numbers : m >= v

calculate_bounds(g) ==
    LET lngs == {point.lng : point \in PointsOf(g)}
        lats == {point.lat : point \in PointsOf(g)}
    IN  GeoBounds_new(f64_min(Infinity, lngs), f64_min(Infinity, lats),
                      f64_max(NegInfinity, lngs), f64_max(NegInfinity, lats))

GeoFeature_new(id, geometry) ==
    [id |-> id, geometry |-> geometry, properties |-> <<>>,
     bounds |-> calculate_bounds(geometry)]

\* faulty variant: the feature is pushed whether or not it intersects the tile
add_feature_unchecked(self, feature) ==
    [kind |-> IF intersects(feature.bounds, self.bounds) THEN "Ok" ELSE "Err",
     tile |-> [self EXCEPT !.features = Append(@, feature)]]

\* add_feature: the result and the tile as the call leaves it
add_feature(self, feature) ==
    IF ~intersects(feature.bounds,
                   GeoBounds_new(self.bounds.min_x, self.bounds.min_y,
                                 self.bounds.max_x, self.bounds.max_y))
    THEN [kind |-> "Err", tile |-> self]
    ELSE [kind |-> "Ok", tile |-> [self EXCEPT !.features = Append(@, feature)]]

\* ---- the tiles and features callers pass ----
NewXs == {0, 1, 5}

NewYs == {0, 1}

NewZs == {0, 1, 20, 21}

ZoomArgs == {0, 1, 20, 21, 32, 33}

Quarter == TileUnit \div 4

\* a point inside the tile (0, 0, 1), a point on its corner, a line across the
\* unit square, a line of no point, a point of NaN coordinates, a ring away
\* from every tile, and a feature whose bounds field was set to NaN
Features ==
    {GeoFeature_new("inside", FeatureGeometry("Point", GeoPoint_new(Quarter, Quarter))),
     GeoFeature_new("corner", FeatureGeometry("Point", GeoPoint_new(2 * Quarter, 2 * Quarter))),
     GeoFeature_new("across", FeatureGeometry("LineString",
         <<GeoPoint_new(Quarter, Quarter), GeoPoint_new(3 * Quarter, 3 * Quarter)>>)),
     GeoFeature_new("nothing", FeatureGeometry("LineString", <<>>)),
     GeoFeature_new("nan", FeatureGeometry("Point", GeoPoint_new(NaN, NaN))),
     GeoFeature_new("away", FeatureGeometry("Polygon",
         <<<<GeoPoint_new(0 - 8 * Quarter, 0 - 8 * Quarter),
             GeoPoint_new(0 - 8 * Quarter, 0 - 4 * Quarter),
             GeoPoint_new(0 - 4 * Quarter, 0 - 4 * Quarter),
             GeoPoint_new(0 - 8 * Quarter, 0 - 8 * Quarter)>>>>)),
     [id |-> "literal", geometry |-> FeatureGeometry("Point", GeoPoint_new(0, 0)),
      properties |-> <<>>, bounds |-> GeoBounds_new(NaN, NaN, NaN, NaN)]}

NoTileCall == [op |-> "none", kind |-> "Ok", val |-> FALSE, args |-> <<>>]

InitTile ==
    /\ this_tile = NoTile
    /\ tile_ret = NoTileCall
    /\ tile_calls = <<>>

\* Tile::new(x, y, z)
TileNew(x, y, z) ==
    /\ tile_ret.op = "none"
    /\ this_tile' = Tile_new(x, y, z).tile
    /\ tile_ret' = [op |-> "new", kind |-> Tile_new(x, y, z).kind, val |-> FALSE,
                    args |-> <<x, y, z>>]
    /\ UNCHANGED tile_calls
    /\ UNCHANGED <<layerVars, fileVars, viewVars>>
    /\ UNCHANGED cacheVars
    /\ UNCHANGED viewportVars
    /\ UNCHANGED geoVars
    /\ UNCHANGED renderVars

\* tile.is_valid_for_zoom(z), in a debug or a release build
IsValidForZoom(z, build) ==
    /\ this_tile.kind = "Tile" /\ tile_calls = <<>>
    /\ tile_ret' = [op |-> "is_valid_for_zoom", kind |-> is_valid_for_zoom(this_tile, z, build).kind,
                    val |-> is_valid_for_zoom(this_tile, z, build).val, args |-> <<z>>]
    /\ UNCHANGED <<this_tile, tile_calls>>
    /\ UNCHANGED <<layerVars, fileVars, viewVars>>
    /\ UNCHANGED cacheVars
    /\ UNCHANGED viewportVars
    /\ UNCHANGED geoVars
    /\ UNCHANGED renderVars

\* tile.add_feature(feature)
AddFeature(feature) ==
    /\ this_tile.kind = "Tile" /\ Len(tile_calls) < MaxAdds
    /\ this_tile' = add_feature(this_tile, feature).tile
    /\ tile_ret' = [op |-> "add_feature", kind |-> add_feature(this_tile, feature).kind,
                    val |-> FALSE, args |-> <<feature>>]
    /\ tile_calls' = Append(tile_calls, <<feature, add_feature(this_tile, feature).kind>>)
    /\ UNCHANGED <<layerVars, fileVars, viewVars>>
    /\ UNCHANGED cacheVars
    /\ UNCHANGED viewportVars
    /\ UNCHANGED geoVars
    /\ UNCHANGED renderVars

NextTile ==
    \/ tile_ret.op = "none" /\ \E x \in NewXs, y \in NewYs, z \in NewZs : TileNew(x, y, z)
    \/ (this_tile.kind = "Tile" /\ tile_calls = <<>>) /\
            \E z \in ZoomArgs, build \in {"debug", "release"} : IsValidForZoom(z, build)
    \/ (this_tile.kind = "Tile" /\ Len(tile_calls) < MaxAdds) /\
            \E feature \in Features : AddFeature(feature)

(***************************************************************************)
(* Layer                                                                   *)
(***************************************************************************)
\* an opacity (f32) is a number of halves: OpacityOne is 1.0
OpacityOne == 2

NoLayer == [kind |-> "NoLayer"]

\* Layer::new; the data source plays no part in what follows and is left out
Layer_new(id, name) ==
    [kind |-> "Layer", id |-> id, name |-> name, style |-> "default", visible |-> TRUE,
     z_index |-> 0, opacity |-> OpacityOne, min_zoom |-> 0, max_zoom |-> MaxZoom]

\* f32::clamp: NaN is neither below min nor above max and comes back as it is
f32_clamp(v, min, max) == IF FLt(v, min) THEN min ELSE IF FGt(v, max) THEN max ELSE v

\* u8::min
u8_min(a, b) == IF a <= b THEN a ELSE b

with_style(self, style) == [self EXCEPT !.style = style]

with_z_index(self, z_index) == [self EXCEPT !.z_index = z_index]

with_opacity(self, opacity) == [self EXCEPT !.opacity = f32_clamp(opacity, 0, OpacityOne)]

with_zoom_range(self, min_zoom, max_zoom) ==
    [self EXCEPT !.min_zoom = u8_min(min_zoom, MaxZoom), !.max_zoom = u8_min(max_zoom, MaxZoom)]

\* Layer::is_valid: Ok or the first error
Layer_is_valid(self) ==
    IF self.id = "" THEN "Layer ID cannot be empty"
    ELSE IF self.name = "" THEN "Layer name cannot be empty"
    ELSE IF FLt(self.opacity, 0) \/ FGt(self.opacity, OpacityOne)
         THEN "Layer opacity must be between 0.0 and 1.0"
    ELSE IF self.min_zoom > self.max_zoom THEN "min_zoom cannot be greater than max_zoom"
    ELSE IF self.max_zoom > MaxZoom THEN "max_zoom cannot exceed 20"
    ELSE "Ok"

\* ---- the arguments callers pass ----
LayerIds == {"", "roads"}

LayerNames == {"", "Roads"}

Opacities == {0 - 1, 1, OpacityOne, OpacityOne + 1, NaN}

LayerZooms == {0, 10, 20, 21}

NoLayerCall == [op |-> "none", result |-> "Ok", args |-> <<>>, before |-> NoLayer]

InitLayer == this_layer = NoLayer /\ layer_ret = NoLayerCall

\* a call that returns the layer: what it was given, and the layer it was made on
Built(op, args, built) ==
    /\ this_layer' = built
    /\ layer_ret' = [op |-> op, result |-> "Ok", args |-> args, before |-> this_layer]
    /\ UNCHANGED <<tileVars, fileVars, viewVars>>
    /\ UNCHANGED cacheVars
    /\ UNCHANGED viewportVars
    /\ UNCHANGED geoVars
    /\ UNCHANGED renderVars

LayerNew(id, name) == this_layer = NoLayer /\ Built("new", <<id, name>>, Layer_new(id, name))

WithStyle(style) ==
    this_layer # NoLayer /\ Built("with_style", <<style>>, with_style(this_layer, style))

WithZIndex(z_index) ==
    this_layer # NoLayer /\ Built("with_z_index", <<z_index>>, with_z_index(this_layer, z_index))

WithOpacity(opacity) ==
    this_layer # NoLayer /\ Built("with_opacity", <<opacity>>, with_opacity(this_layer, opacity))

WithZoomRange(min_zoom, max_zoom) ==
    this_layer # NoLayer /\ Built("with_zoom_range", <<min_zoom, max_zoom>>,
                                   with_zoom_range(this_layer, min_zoom, max_zoom))

\* layer.is_valid()
LayerIsValid ==
    /\ this_layer # NoLayer
    /\ layer_ret' = [op |-> "is_valid", result |-> Layer_is_valid(this_layer), args |-> <<>>,
                     before |-> this_layer]
    /\ UNCHANGED this_layer
    /\ UNCHANGED <<tileVars, fileVars, viewVars>>
    /\ UNCHANGED cacheVars
    /\ UNCHANGED viewportVars
    /\ UNCHANGED geoVars
    /\ UNCHANGED renderVars

NextLayer ==
    \/ this_layer = NoLayer /\ \E id \in LayerIds, name \in LayerNames : LayerNew(id, name)
    \/ this_layer # NoLayer /\ \E style \in {"custom"} : WithStyle(style)
    \/ this_layer # NoLayer /\ \E z_index \in {0 - 1, 7} : WithZIndex(z_index)
    \/ this_layer # NoLayer /\ \E opacity \in Opacities : WithOpacity(opacity)
    \/ this_layer # NoLayer /\ \E min_zoom \in LayerZooms, max_zoom \in LayerZooms :
            WithZoomRange(min_zoom, max_zoom)
    \/ LayerIsValid

(***************************************************************************)
(* GeoArrowFile                                                            *)
(* A path is its scheme and its extension; what a read of the path yields  *)
(* is chosen anew at every call (the file or the server may have changed): *)
(* a read error, or a content, which is its first character and what it    *)
(* parses to as GeoJSON.                                                   *)
(***************************************************************************)
MaxFileCalls == 3

GeoPath(remote, ext) == [remote |-> remote, ext |-> ext]

Content(first, parsed, count) == [first |-> first, parsed |-> parsed, count |-> count]

ReadError == [first |-> "", parsed |-> "unreadable", count |-> 0]

\* a FeatureCollection of no and of two features, a Feature, a Geometry, JSON
\* that is no GeoJSON, and text that is no JSON
Contents ==
    {Content("{", "FeatureCollection", 0), Content("{", "FeatureCollection", 2),
     Content("{", "Feature", 1), Content("{", "Geometry", 1),
     Content("[", "invalid", 0), Content("x", "invalid", 0)}

Reads == Contents \cup {ReadError}

NoFile == [kind |-> "NoFile"]

GeoArrowFile_new(path) ==
    [kind |-> "GeoArrowFile", path |-> path, size |-> 0, created_at |-> "2023-01-01",
     schema |-> None, feature_count |-> None]

Returned(kind, self, features) == [kind |-> kind, self |-> self, features |-> features]

\* parse_geojson: the count is recorded only when the content parses
parse_geojson(self, content) ==
    IF content.parsed = "invalid" THEN Returned("Serialization: Invalid GeoJSON", self, None)
    ELSE Returned("Ok",
                  [self EXCEPT !.feature_count =
                                  IF content.parsed = "FeatureCollection"
                                  THEN Some(content.count) ELSE Some(1),
                               !.schema = None],
                  None)

parse_content(self, content) ==
    IF self.path.ext \in {"geojson", "json"} THEN parse_geojson(self, content)
    ELSE IF self.path.ext = "parquet"
         THEN Returned("Serialization: Parquet format not yet implemented", self, None)
    ELSE IF content.first \in {"{", "["} THEN parse_geojson(self, content)
    ELSE Returned("Serialization: Unknown file format", self, None)

\* load_from_url: the path is fetched or read, and the content parsed
load_from_url(self, read) ==
    IF read = ReadError
    THEN Returned(IF self.path.remote THEN "Io: Failed to fetch URL" ELSE "Io: Failed to read file",
                  self, None)
    ELSE parse_content(self, read)

open(self, read) == load_from_url(self, read)

\* faulty variant: the path is read whether or not the file was opened
get_features_unguarded(self, read) ==
    IF read = ReadError
    THEN Returned(IF self.path.remote THEN "Io: Failed to fetch URL" ELSE "Io: Failed to read file",
                  self, None)
    ELSE IF read.parsed = "invalid" THEN Returned("Serialization: Invalid GeoJSON", self, None)
    ELSE Returned("Ok", self, Some(read.count))

\* get_features: the features are the number of them the collection returned holds
get_features(self, read) ==
    IF ~self.feature_count.some
    THEN Returned("Io: File not loaded. Call open() first.", self, None)
    ELSE IF read = ReadError
    THEN Returned(IF self.path.remote THEN "Io: Failed to fetch URL" ELSE "Io: Failed to read file",
                  self, None)
    ELSE IF read.parsed = "invalid" THEN Returned("Serialization: Invalid GeoJSON", self, None)
    ELSE Returned("Ok", self, Some(read.count))

\* ---- the paths callers pass ----
Paths ==
    {GeoPath(FALSE, "geojson"), GeoPath(TRUE, "json"), GeoPath(FALSE, "parquet"),
     GeoPath(FALSE, "other")}

InitFile == this_file = NoFile /\ file_ret = <<>>

\* a call on the file: the file as the call leaves it, and what it returned
FileCall(op, r) ==
    /\ this_file' = r.self
    /\ file_ret' = Append(file_ret, [op |-> op, kind |-> r.kind, features |-> r.features])
    /\ UNCHANGED <<tileVars, layerVars, viewVars>>
    /\ UNCHANGED cacheVars
    /\ UNCHANGED viewportVars
    /\ UNCHANGED geoVars
    /\ UNCHANGED renderVars

FileNew(path) ==
    this_file = NoFile /\ FileCall("new", Returned("Ok", GeoArrowFile_new(path), None))

\* file.open().await; &mut self keeps every other call out until it returns
Open(read) ==
    /\ this_file # NoFile /\ Len(file_ret) <= MaxFileCalls
    /\ FileCall("open", open(this_file, read))

\* file.get_features().await
GetFeatures(read) ==
    /\ this_file # NoFile /\ Len(file_ret) <= MaxFileCalls
    /\ FileCall("get_features", get_features(this_file, read))

NextFile ==
    \/ this_file = NoFile /\ \E path \in Paths : FileNew(path)
    \/ (this_file # NoFile /\ Len(file_ret) <= MaxFileCalls) /\ \E read \in Reads : Open(read)
    \/ (this_file # NoFile /\ Len(file_ret) <= MaxFileCalls) /\
            \E read \in Reads : GetFeatures(read)

(***************************************************************************)
(* MapView                                                                 *)
(***************************************************************************)
MaxViewCalls == 3

NoView == [kind |-> "NoView"]

\* MapView::new; the file and the style play no part in what follows
MapView_new(id, position, zoom) ==
    [kind |-> "MapView", id |-> id, zoom |-> zoom, bounds |-> None, position |-> position]

\* MapView::default, which new_wasm returns too
MapView_default == MapView_new(0, <<0, 0>>, 1)

set_position(self, position) == [self EXCEPT !.position = position]

get_position(self) == self.position

set_zoom(self, zoom) == [self EXCEPT !.zoom = zoom]

get_zoom(self) == self.zoom

\* render_to_canvas takes &self: an error when the page has no such canvas or
\* no 2d context, and Ok once the crosshairs are drawn
render_to_canvas(self, page) == IF page = "canvas" THEN "Ok" ELSE "Wasm"

\* ---- the arguments callers pass ----
ViewZooms == {0, MaxZoom, MaxZoom + 1}

ViewPositions == {<<0, 0>>, <<Deg45, 0 - Deg90>>}

Pages == {"canvas", "no canvas"}

InitView == this_view = NoView /\ view_ret = <<>>

\* a call on the view: the view as the call leaves it, what the call was given
\* and what it returned
ViewCall(op, arg, self, val) ==
    /\ this_view' = self
    /\ view_ret' = Append(view_ret, [op |-> op, arg |-> arg, val |-> val])
    /\ UNCHANGED <<tileVars, layerVars, fileVars>>
    /\ UNCHANGED cacheVars
    /\ UNCHANGED viewportVars
    /\ UNCHANGED geoVars
    /\ UNCHANGED renderVars

ViewDefault == this_view = NoView /\ ViewCall("default", <<>>, MapView_default, <<>>)

ViewNew(position, zoom) ==
    this_view = NoView /\ ViewCall("new", <<position, zoom>>, MapView_new(1, position, zoom), <<>>)

\* set_position, and set_position_wasm, which assigns the same field
SetPosition(position) ==
    /\ this_view # NoView /\ Len(view_ret) <= MaxViewCalls
    /\ ViewCall("set_position", <<position>>, set_position(this_view, position), <<>>)

GetPosition ==
    /\ this_view # NoView /\ Len(view_ret) <= MaxViewCalls
    /\ ViewCall("get_position", <<>>, this_view, <<get_position(this_view)>>)

\* set_zoom, and set_zoom_wasm, which assigns the same field
SetZoom(zoom) ==
    /\ this_view # NoView /\ Len(view_ret) <= MaxViewCalls
    /\ ViewCall("set_zoom", <<zoom>>, set_zoom(this_view, zoom), <<>>)

GetZoom ==
    /\ this_view # NoView /\ Len(view_ret) <= MaxViewCalls
    /\ ViewCall("get_zoom", <<>>, this_view, <<get_zoom(this_view)>>)

RenderToCanvas(page) ==
    /\ this_view # NoView /\ Len(view_ret) <= MaxViewCalls
    /\ ViewCall("render_to_canvas", <<page>>, this_view, <<render_to_canvas(this_view, page)>>)

NextView ==
    \/ ViewDefault
    \/ this_view = NoView /\ \E position \in ViewPositions, zoom \in ViewZooms :
            ViewNew(position, zoom)
    \/ (this_view # NoView /\ Len(view_ret) <= MaxViewCalls) /\
            \E position \in ViewPositions : SetPosition(position)
    \/ GetPosition
    \/ (this_view # NoView /\ Len(view_ret) <= MaxViewCalls) /\
            \E zoom \in ViewZooms : SetZoom(zoom)
    \/ GetZoom
    \/ (this_view # NoView /\ Len(view_ret) <= MaxViewCalls) /\
            \E page \in Pages : RenderToCanvas(page)

Init ==
    /\ InitCache /\ InitViewport /\ InitGeo /\ InitRender /\ InitChecked
    /\ InitTile /\ InitLayer /\ InitFile /\ InitView

\* the same, with the cache built by TileCache::new(MaxCap)
InitOne == Init /\ max_size = MaxCap

Next ==
    \/ NextCache \/ NextCacheConc \/ NextViewport \/ NextGeo
    \/ NextSurface \/ NextRender \/ NextGeometry \/ NextTransform
    \/ NextTile \/ NextLayer \/ NextFile \/ NextView

Spec == Init /\ [][Next]_vars

SpecViewport == InitOne /\ [][NextViewport]_vars

SpecGeo == InitOne /\ [][NextGeo]_vars

SpecCache == Init /\ [][NextCache]_vars

SpecCacheConc == Init /\ [][NextCacheConc]_vars

SpecSurface == InitOne /\ [][NextSurface]_vars

SpecRender == InitOne /\ [][NextRender]_vars

SpecGeometry == InitOne /\ [][NextGeometry]_vars

SpecTransform == InitOne /\ [][NextTransform]_vars

SpecTile == InitOne /\ [][NextTile]_vars

SpecLayer == InitOne /\ [][NextLayer]_vars

SpecFile == InitOne /\ [][NextFile]_vars

SpecView == InitOne /\ [][NextView]_vars

(***************************************************************************)
(* Claims about the tile cache                                             *)
(***************************************************************************)
Range(s) == {s[i] : i \in 1..Len(s)}

Without(s, x) == SelectSeq(s, LAMBDA y : y # x)

\* what a true LRU cache of capacity cap holds after the call history h, least
\* recently used first: a get of a held id and an insert of a held id move the id
\* to the end, an insert of a new id at capacity drops the first id
RECURSIVE LruOrder(_, _)
LruOrder(h, cap) ==
    IF h = << >> THEN << >>
    ELSE LET prev == LruOrder(SubSeq(h, 1, Len(h) - 1), cap)
             op == h[Len(h)][1]
             id == h[Len(h)][2]
         IN  IF id \in Range(prev) THEN Append(Without(prev, id), id)
             ELSE IF op = "get" \/ cap = 0 THEN prev
             ELSE IF Len(prev) >= cap THEN Append(Tail(prev), id)
             ELSE Append(prev, id)

LastCall == calls[Len(calls)]

\* C1: eviction is true LRU: after any sequence of get and insert calls the cache
\* holds the ids a least-recently-used cache of the same capacity holds (with
\* capacity 2, insert A, insert B, get A, insert C leaves A and C)
C1_TrueLRU == DOMAIN tiles = Range(LruOrder(calls, max_size))

C3_ReinsertReplaces ==
    [][\A id \in TileIds, tile \in TileVals :
          (Insert(id, tile) /\ id \in Range(LruOrder(calls, max_size)))
          => /\ id \in DOMAIN tiles'
             /\ tiles'[id] = tile
             /\ DOMAIN tiles' = DOMAIN tiles
             /\ current_size' = current_size
             /\ access_order' # << >>
             /\ access_order'[Len(access_order')] = id]_vars

\* C4: memory_usage is the number of stored entries (counter, map and recency
\* order describe the same ids) and an insert of a new id into a cache with room
\* raises it by one
C4_MemoryUsageCounts ==
    [][/\ memory_usage' = Cardinality(DOMAIN tiles')
       /\ Range(access_order') = DOMAIN tiles'
       /\ Len(access_order') = memory_usage'
       /\ \A id \in TileIds, tile \in TileVals :
            (Insert(id, tile) /\ id \notin DOMAIN tiles /\ memory_usage < max_size)
            => memory_usage' = memory_usage + 1]_vars

InRange(x, lo, hi) == x # NaN /\ lo <= x /\ x <= hi

ValidCenter(c) == InRange(c.lat, 0 - Deg90, Deg90) /\ InRange(c.lng, 0 - Deg180, Deg180)

ValidZoom(z) == InRange(z, 0, MaxZoom * ZoomDen)

ValidSize(s) == s.width # 0 /\ s.height # 0

\* floor(zoom) as a zoom level; level 0 for a zoom that is not a number
ZoomLevel(z) ==
    IF \E n \in 0..MaxZoom : InRange(z, n * ZoomDen, (n + 1) * ZoomDen - 1)
    THEN CHOOSE n \in 0..MaxZoom : InRange(z, n * ZoomDen, (n + 1) * ZoomDen - 1)
    ELSE 0

\* v's bounds are center -/+ (width * 360 / (512 * 2^floor(zoom)),
\* height * 180 / (512 * 2^floor(zoom))), and its pixel bounds (0, 0, width, height)
Fresh(v) ==
    LET n == Pow2(ZoomLevel(v.zoom)) IN
    /\ (v.bounds.max_x - v.center.lng) * n = v.size.width * (Deg360 \div 512)
    /\ (v.center.lng - v.bounds.min_x) * n = v.size.width * (Deg360 \div 512)
    /\ (v.bounds.max_y - v.center.lat) * n = v.size.height * (Deg180 \div 512)
    /\ (v.center.lat - v.bounds.min_y) * n = v.size.height * (Deg180 \div 512)
    /\ v.pixel_bounds = [min_x |-> 0, min_y |-> 0,
                         max_x |-> v.size.width, max_y |-> v.size.height]

\* C6: Viewport::new returns an error and no viewport iff the center is invalid,
\* the zoom is not in [0,20] or a size dimension is 0; otherwise it returns a
\* viewport whose bounds are computed from its center, zoom and size
C6_CreationValidates ==
    vp_call.op = "new" =>
        IF ValidCenter(vp_call.center) /\ ValidZoom(vp_call.zoom) /\ ValidSize(vp_call.size)
        THEN /\ vp_ret = "Ok" /\ vp_live
             /\ viewport.center = vp_call.center
             /\ viewport.zoom = vp_call.zoom
             /\ viewport.size = vp_call.size
             /\ Fresh(viewport)
        ELSE vp_ret = "Err" /\ ~vp_live

\* C7: after every call on a created viewport the stored bounds are the bounds of
\* the current center, floor(zoom) and size and the pixel bounds are
\* (0, 0, width, height); rotate changes the rotation and nothing else
C7_BoundsNeverStale ==
    [][/\ vp_live' => Fresh(viewport')
       /\ \A r \in Rotations : Rotate(r) => viewport' = [viewport EXCEPT !.rotation = r]]_vars

\* C7 witness: a resize has returned on a rotated viewport at a fractional zoom
C7_ResizedAfterRotate ==
    /\ vp_live /\ vp_call.op = "resize" /\ vp_ret = "Ok"
    /\ viewport.rotation = Deg45
    /\ viewport.zoom = 1
    /\ viewport.size = PixelSize_new(TilePixels, 1)
    /\ viewport.center = GeoPoint_new(Deg90, Deg180)
    /\ Fresh(viewport)

\* C8: pan, zoom_to and resize reject an invalid argument (center not valid, zoom
\* not in [0,20], a zero size dimension) with an error that leaves every field as
\* it was; a valid call changes its own field and the derived bounds only
C8_MutatorsValidate ==
    [][/\ \A c \in Centers : Pan(c) =>
            IF ValidCenter(c)
            THEN vp_ret' = "Ok"
                 /\ viewport' = [viewport EXCEPT !.center = c, !.bounds = viewport'.bounds]
            ELSE vp_ret' = "Err" /\ viewport' = viewport
       /\ \A z \in Zooms : ZoomTo(z) =>
            IF ValidZoom(z)
            THEN vp_ret' = "Ok"
                 /\ viewport' = [viewport EXCEPT !.zoom = z, !.bounds = viewport'.bounds]
            ELSE vp_ret' = "Err" /\ viewport' = viewport
       /\ \A s \in Sizes : Resize(s) =>
            IF ValidSize(s)
            THEN vp_ret' = "Ok"
                 /\ viewport' = [viewport EXCEPT !.size = s, !.bounds = viewport'.bounds,
                                                 !.pixel_bounds = viewport'.pixel_bounds]
            ELSE vp_ret' = "Err" /\ viewport' = viewport]_vars

QPoint(lat, lng) == [lat |-> QInt(lat), lng |-> QInt(lng)]

\* C9: on a viewport with non-empty bounds, screen_to_world(world_to_screen(p)) is
\* p and world_to_screen(screen_to_world(x, y)) is (x, y), through the viewport's
\* methods and through the render context's functions alike; the min-lng/max-lat
\* corner maps to pixel (0, 0) and the max-lng/min-lat corner to (width, height)
C9_RoundTrip ==
    /\ (xf.op # "none" /\ ~is_empty(viewport.bounds)) => xf.back = xf.in
    /\ (xf.op = "world_to_screen" /\ ~is_empty(viewport.bounds))
        => xf.ctx_out = xf.out /\ xf.ctx_back = <<xf.in.lng, xf.in.lat>>
    /\ (xf.op = "screen_to_world" /\ ~is_empty(viewport.bounds))
        => xf.ctx_out = <<xf.out.lng, xf.out.lat>> /\ xf.ctx_back = xf.in
    /\ (xf.op = "world_to_screen"
            /\ xf.in = QPoint(viewport.bounds.max_y, viewport.bounds.min_x))
        => xf.out = <<QInt(0), QInt(0)>>
    /\ (xf.op = "world_to_screen"
            /\ xf.in = QPoint(viewport.bounds.min_y, viewport.bounds.max_x))
        => xf.out = <<QInt(viewport.size.width), QInt(viewport.size.height)>>

\* C9 witness: a point off the viewport has gone to pixels and back on a wide
\* viewport at a fractional zoom
C9_OffViewportPointBack ==
    /\ xf.op = "world_to_screen"
    /\ xf.in = QPoint(Deg45 + 3, 0 - Deg90 - 5)
    /\ xf.back = xf.in
    /\ xf.out[2] # QInt(0)
    /\ viewport.size = PixelSize_new(TilePixels, 1)
    /\ viewport.zoom = 1
    /\ ~is_empty(viewport.bounds)

\* C10: a.intersects(b) = b.intersects(a) for every pair of rectangles
C10_IntersectsSymmetric == geo.op = "intersects" => geo.ab = geo.ba

\* C10 witness: two rectangles that touch along an edge were compared
C10_TouchingCompared ==
    /\ geo.op = "intersects"
    /\ geo.a = GeoBounds_new(0, 0, 1, 1)
    /\ geo.b = GeoBounds_new(1, 0, 2, 1)
    /\ ~geo.ab /\ ~geo.ba

(***************************************************************************)
(* Claims about Viewport::get_required_tiles                               *)
(***************************************************************************)
WorldBounds == GeoBounds_new(0 - Deg180, 0 - Deg90, Deg180, Deg90)

\* C11: at zoom 0 with bounds exactly lng -180..180, lat -90..90,
\* get_required_tiles returns the one tile (0, 0, 0)
C11_WorldIsOneTile ==
    (required.op = "get_required_tiles" /\ viewport.zoom = 0
        /\ viewport.bounds = WorldBounds)
    => required.tiles = << <<0, 0, 0>> >>

\* C11 witness: get_required_tiles has returned on the 256 x 256 viewport centred
\* on (0, 0) at zoom 0, whose bounds are the world
C11_WorldViewportAsked ==
    /\ required.op = "get_required_tiles"
    /\ viewport.zoom = 0
    /\ viewport.size = PixelSize_new(TilePixels, TilePixels)
    /\ viewport.center = GeoPoint_new(0, 0)
    /\ viewport.bounds = WorldBounds
    /\ Len(required.tiles) = 1

TileXs == {required.tiles[i][1] : i \in 1..Len(required.tiles)}

TileYs == {required.tiles[i][2] : i \in 1..Len(required.tiles)}

\* S is a set of consecutive integers
Contiguous(S) == \A a \in S, b \in S : \A c \in a..b : c \in S

\* C12: on a valid viewport every returned tile has z = floor(zoom) and
\* 0 <= x, y <= 2^z - 1, and the result lists each tile of (one contiguous x
\* range) x (one contiguous y range) once
C12_TilesInGrid ==
    (required.op = "get_required_tiles" /\ ValidZoom(viewport.zoom)) =>
        LET z == ZoomLevel(viewport.zoom) IN
        /\ \A i \in 1..Len(required.tiles) :
              /\ required.tiles[i][3] = z
              /\ InRange(required.tiles[i][1], 0, Pow2(z) - 1)
              /\ InRange(required.tiles[i][2], 0, Pow2(z) - 1)
        /\ Contiguous(TileXs) /\ Contiguous(TileYs)
        /\ Range(required.tiles) = {<<x, y, z>> : x \in TileXs, y \in TileYs}
        /\ Len(required.tiles) = Cardinality(TileXs) * Cardinality(TileYs)

\* C12 witness: the bounds reach past the world's edges on both axes at a
\* fractional zoom of level 0 < z, and more than one tile is returned
C12_PastWorldEdge ==
    /\ required.op = "get_required_tiles"
    /\ viewport.zoom = ZoomDen
    /\ viewport.center = GeoPoint_new(Deg90, Deg180)
    /\ viewport.bounds.max_x > Deg180 /\ viewport.bounds.max_y > Deg90
    /\ viewport.size = PixelSize_new(TilePixels, TilePixels)
    /\ Len(required.tiles) >= 1

Clamp(a, lo, hi) == IF a < lo THEN lo ELSE IF a > hi THEN hi ELSE a

\* in-world longitudes and latitudes inside the viewport bounds: the edges, the
\* centre, and the values next to the edges
SampleLngs ==
    LET lo == Clamp(viewport.bounds.min_x, 0 - Deg180, Deg180)
        hi == Clamp(viewport.bounds.max_x, 0 - Deg180, Deg180)
    IN  {lo, hi, viewport.center.lng, Clamp(lo + 1, lo, hi), Clamp(hi - 1, lo, hi)}

SampleLats ==
    LET lo == Clamp(viewport.bounds.min_y, 0 - Deg90, Deg90)
        hi == Clamp(viewport.bounds.max_y, 0 - Deg90, Deg90)
    IN  {lo, hi, viewport.center.lat, Clamp(lo + 1, lo, hi), Clamp(hi - 1, lo, hi)}

\* (lng, lat) lies in the grid cell of tile t: t.x <= (lng + 180) / 360 * 2^z
\* <= t.x + 1 and t.y <= (1 - (lat + 90) / 180) * 2^z <= t.y + 1
InCell(lng, lat, t) ==
    LET w == Deg360 \div Pow2(t[3])
        h == Deg180 \div Pow2(t[3])
    IN  /\ t[1] * w <= lng + Deg180 /\ lng + Deg180 <= (t[1] + 1) * w
        /\ t[2] * h <= Deg90 - lat /\ Deg90 - lat <= (t[2] + 1) * h

\* C13: every in-world point inside the viewport bounds lies in the grid cell
\* of some returned tile, at level floor(zoom)
C13_TilesCoverBounds ==
    (required.op = "get_required_tiles" /\ ValidZoom(viewport.zoom)) =>
        \A lng \in SampleLngs, lat \in SampleLats :
            \E i \in 1..Len(required.tiles) :
                /\ required.tiles[i][3] = ZoomLevel(viewport.zoom)
                /\ InCell(lng, lat, required.tiles[i])

\* C13 witness: at zoom 20 the bounds of a one-pixel viewport centred on (0, 0)
\* straddle a tile edge on both axes, and tiles on both sides are returned
C13_StraddlesTileEdge ==
    /\ required.op = "get_required_tiles"
    /\ viewport.zoom = MaxZoom * ZoomDen
    /\ viewport.center = GeoPoint_new(0, 0)
    /\ viewport.size = PixelSize_new(1, 1)
    /\ Len(required.tiles) = 9
    /\ TileXs = (Pow2(19) - 1)..(Pow2(19) + 1)

(***************************************************************************)
(* Claims about the canvas renderers                                       *)
(***************************************************************************)
\* the canvas calls made by the last render call
Issued == SubSeq(surface, render_call.mark + 1, Len(surface))

\* C17: render_polygon on a non-empty ring makes exactly these calls, in this
\* order: set fill style, set stroke style, set line width, begin_path, move_to
\* the first point, line_to each other point in order, close_path, fill, stroke
C17_PolygonCallOrder ==
    (render_call.op = "render_polygon" /\ render_call.args # <<>>) =>
        LET n == Len(render_call.args)
            at(i) == render_call.args[i]
        IN  /\ render_ret = "Ok"
            /\ Len(Issued) = n + 7
            /\ Issued[1] = Call("set_fill_style_str", "polygon_fill", QInt(0), QInt(0))
            /\ Issued[2] = Call("set_stroke_style_str", "polygon_stroke", QInt(0), QInt(0))
            /\ Issued[3] = Call("set_line_width", "line_width", QInt(0), QInt(0))
            /\ Issued[4].op = "begin_path"
            /\ Issued[5] = Call("move_to", "", at(1)[1], at(1)[2])
            /\ \A i \in 2..n : Issued[4 + i] = Call("line_to", "", at(i)[1], at(i)[2])
            /\ Issued[n + 5].op = "close_path"
            /\ Issued[n + 6].op = "fill"
            /\ Issued[n + 7].op = "stroke"

\* C17 witness: a closed four-point ring was drawn after an earlier render call
C17_RingDrawn ==
    /\ render_call.op = "render_polygon"
    /\ render_call.args = <<ScreenA, ScreenB, ScreenC, ScreenA>>
    /\ render_call.mark > 0
    /\ Len(Issued) = 11
    /\ Issued[10].op = "fill" /\ Issued[11].op = "stroke"

\* C18: when the k-th arc of a render_points call fails, the call returns the
\* error, the failed arc is the last canvas call it makes (k - 1 points were
\* drawn in full before it), and the calls made before stay on the surface
C18_SurfaceErrorAborts ==
    [][\A points \in PointLists : \A k \in 1..Len(points) :
          RenderPoints(points, k) =>
              /\ render_ret' = "Err"
              /\ Len(surface') = Len(surface) + 1 + 3 * (k - 1) + 2
              /\ SubSeq(surface', 1, Len(surface)) = surface
              /\ surface'[Len(surface')]
                    = [Call("arc", "point_radius", points[k][1], points[k][2])
                          EXCEPT !.ok = FALSE]
              /\ \A i \in (Len(surface) + 1)..(Len(surface') - 1) : surface'[i].ok
              /\ \A i \in 1..(k - 1) :
                    surface'[Len(surface) + 3 * i]
                        = Call("arc", "point_radius", points[i][1], points[i][2])]_vars

\* C18 witness: the second of three arcs failed, on a surface that already held
\* the calls of an earlier render call
C18_SecondArcFailed ==
    /\ render_call.op = "render_points"
    /\ render_call.fail_at = 2
    /\ Len(render_call.args) = 3
    /\ render_call.mark > 0
    /\ render_ret = "Err"
    /\ ~surface[Len(surface)].ok
    /\ Len(Issued) = 6

(***************************************************************************)
(* Claims about the render pipeline                                        *)
(***************************************************************************)
RECURSIVE Concat(_)
Concat(seqs) == IF seqs = <<>> THEN <<>> ELSE Head(seqs) \o Concat(Tail(seqs))

\* the features of the last render pass
PassFeatures == FeaturesOf(render_call.args)

IsA(feature, type) == feature.geometry.some /\ feature.geometry.v.type = type

Arcs == SelectSeq(Issued, LAMBDA c : c.op = "arc")

\* C14: a pass over n Point features makes exactly n arc calls on the surface,
\* the i-th centred on world_to_screen of the i-th point under the pass's
\* bounds and canvas size
C14_PointsDrawn ==
    (render_call.op = "render_features"
        /\ \A i \in 1..Len(PassFeatures) : IsA(PassFeatures[i], "Point")) =>
        /\ Len(Arcs) = Len(PassFeatures)
        /\ \A i \in 1..Len(Arcs) :
              <<Arcs[i].x, Arcs[i].y>>
                = RenderContext_world_to_screen(PassContext,
                      QInt(PassFeatures[i].geometry.v.value[1]),
                      QInt(PassFeatures[i].geometry.v.value[2]))

\* a feature whose LineString has a coordinate that is not finite
InError(feature) ==
    /\ IsA(feature, "LineString")
    /\ \E i \in 1..Len(feature.geometry.v.value) :
          feature.geometry.v.value[i][1] = NaN \/ feature.geometry.v.value[i][2] = NaN

\* the number of errors a pass reports: its Result carries one or none
ErrorsReported == IF render_ret = "Err" THEN 1 ELSE 0

\* C15: in a pass over a list with one feature in error, exactly one error is
\* reported, the feature in error is skipped (nothing with a non-finite
\* coordinate is handed on for drawing), and every Point feature of the list,
\* before or after it, gets its arc
C15_FaultTolerant ==
    (render_call.op = "render_features"
        /\ Cardinality({i \in 1..Len(PassFeatures) : InError(PassFeatures[i])}) = 1) =>
        /\ ErrorsReported = 1
        /\ \A k \in 1..Len(requests) : validate_coordinates(requests[k].coords)
        /\ Len(Arcs) = Cardinality({i \in 1..Len(PassFeatures) : IsA(PassFeatures[i], "Point")})

\* the parts of a multi-part geometry or a collection as geometries, in stored order
PartsOf(geometry) ==
    CASE geometry.type = "MultiLineString" ->
            [i \in 1..Len(geometry.value) |-> Geometry("LineString", geometry.value[i])]
      [] geometry.type = "MultiPolygon" ->
            [i \in 1..Len(geometry.value) |-> Geometry("Polygon", geometry.value[i])]
      [] geometry.type = "GeometryCollection" -> geometry.value
      [] OTHER -> <<geometry>>

\* what render_geometry does on g is what it does on g's parts one after another,
\* and so within each part
RECURSIVE PartsInOrder(_)
PartsInOrder(g) ==
    LET parts == PartsOf(g)
        whole == render_geometry(g, PassContext)
        each == [i \in 1..Len(parts) |-> render_geometry(parts[i], PassContext)]
    IN  \/ parts = <<g>>
        \/ /\ whole.requests = Concat([i \in 1..Len(parts) |-> each[i].requests])
           /\ whole.calls = Concat([i \in 1..Len(parts) |-> each[i].calls])
           /\ \A i \in 1..Len(parts) : PartsInOrder(parts[i])

\* the canvas calls and the render closures of the pass are those of its features,
\* feature by feature in list order
InListOrder(calls_made, handed, features) ==
    LET each == [i \in 1..Len(features) |-> render_single_feature(features[i], PassContext)]
    IN  /\ calls_made = Concat([i \in 1..Len(features) |-> each[i].calls])
        /\ handed = Concat([i \in 1..Len(features) |-> each[i].requests])
        /\ \A i \in 1..Len(features) :
              /\ features[i].geometry.some => PartsInOrder(features[i].geometry.v)
              /\ IsA(features[i], "MultiPoint") =>
                    each[i].requests[1].coords
                        = transform_coordinates(PassContext, features[i].geometry.v.value)

ExteriorRings(feature) ==
    LET rings_of(polygon) ==
            IF polygon = <<>> THEN <<>>
            ELSE <<transform_coordinates(PassContext, polygon[1])>>
    IN  CASE IsA(feature, "Polygon") -> rings_of(feature.geometry.v.value)
          [] IsA(feature, "MultiPolygon") ->
                Concat([i \in 1..Len(feature.geometry.v.value) |->
                            rings_of(feature.geometry.v.value[i])])
          [] OTHER -> <<>>

\* the paths begun on the surface by the last call: the first point of each
PathStarts == SelectSeq(Issued, LAMBDA c : c.op = "move_to")

\* C19: a pass over Polygon and MultiPolygon features draws one path per polygon
\* that has a ring, starting at the first point of its exterior ring, and nothing
\* else: no path for a hole and none for a polygon without rings
C19_ExteriorRingsOnly ==
    (render_call.op = "render_features"
        /\ \A i \in 1..Len(PassFeatures) :
              IsA(PassFeatures[i], "Polygon") \/ IsA(PassFeatures[i], "MultiPolygon")) =>
        LET rings == Concat([i \in 1..Len(PassFeatures) |-> ExteriorRings(PassFeatures[i])])
        IN  /\ Len(PathStarts) = Len(rings)
            /\ \A k \in 1..Len(PathStarts) :
                  <<PathStarts[k].x, PathStarts[k].y>> = rings[k][1]
            /\ Len(SelectSeq(Issued, LAMBDA c : c.op = "begin_path")) = Len(rings)

(***************************************************************************)
(* Claims about FeatureGeometry                                            *)
(***************************************************************************)
\* a ring of at least 4 points, all in range, whose first point is its last
RingRule(ring) ==
    /\ Len(ring) >= 4
    /\ \A i \in 1..Len(ring) : ValidCenter(ring[i])
    /\ ring[1] = ring[Len(ring)]

PolygonRule(rings) == Len(rings) >= 1 /\ \A r \in 1..Len(rings) : RingRule(rings[r])

\* C20: a Polygon is valid iff it has a ring and every ring has at least 4
\* points, all valid, the first equal to the last; a MultiPolygon is valid only
\* if every polygon of it is, and is valid if it has polygons and all of them are
C20_RingValidity ==
    /\ (checked.op = "is_valid" /\ checked.geometry.kind = "Polygon")
         => (checked.valid <=> PolygonRule(checked.geometry.v))
    /\ (checked.op = "is_valid" /\ checked.geometry.kind = "MultiPolygon") =>
         LET polygons == checked.geometry.v IN
         /\ checked.valid => \A k \in 1..Len(polygons) : PolygonRule(polygons[k])
         /\ (polygons # <<>> /\ \A k \in 1..Len(polygons) : PolygonRule(polygons[k]))
               => checked.valid

\* C20 witness: a polygon of one closed ring of three points was found invalid
C20_ThreePointRingFails ==
    /\ checked.op = "is_valid"
    /\ checked.geometry.kind = "Polygon"
    /\ checked.geometry.v
         = <<<<GeoPoint_new(0, 0), GeoPoint_new(Deg45, Deg90), GeoPoint_new(0, 0)>>>>
    /\ ~checked.valid

\* C21: GeoPoint::is_valid holds iff -90 <= lat <= 90 and -180 <= lng <= 180,
\* the limits included
C21_InclusiveLimits ==
    checked.op = "GeoPoint_is_valid" =>
        (checked.valid <=> /\ InRange(checked.geometry.v.lat, 0 - Deg90, Deg90)
                           /\ InRange(checked.geometry.v.lng, 0 - Deg180, Deg180))

\* C21 witness: the point at lat = 90, lng = 180 was found valid
C21_CornerIsValid ==
    /\ checked.op = "GeoPoint_is_valid"
    /\ checked.geometry.v = GeoPoint_new(Deg90, Deg180)
    /\ checked.valid

(***************************************************************************)
(* Claims about the transforms on empty bounds                             *)
(***************************************************************************)
\* C22: on empty bounds world_to_screen gives (0, 0) and screen_to_world gives
\* the center, and transform_position under the context of the same bounds and
\* size gives the pixel position Viewport::world_to_screen gives, whether the
\* bounds are empty or not
C22_EmptyBoundsAgree ==
    /\ xf.op = "position_to_screen" =>
          /\ is_empty(viewport.bounds) => xf.out = <<QInt(0), QInt(0)>>
          /\ xf.ctx_out = xf.out
    /\ xf.op = "pixel_to_world" =>
          (is_empty(viewport.bounds)
              => xf.out = GeoPoint_new(QInt(viewport.center.lat), QInt(viewport.center.lng)))

(***************************************************************************)
(* Claims about Tile                                                       *)
(***************************************************************************)
\* x, y, z are the coordinates of a tile of the grid
InGrid(x, y, z) == z \in 0..MaxZoom /\ x < Pow2(z) /\ y < Pow2(z)

\* C23: every Tile has z in [0,20] and x, y < 2^z: Tile::new produces a Tile
\* exactly for such coordinates and rejects the others, and is_valid_for_zoom(z)
\* is true exactly when tile.z = z and x, y < 2^z
C23_TilesInGrid ==
    /\ this_tile.kind = "Tile" => InGrid(this_tile.x, this_tile.y, this_tile.z)
    /\ tile_ret.op = "new" =>
          (tile_ret.kind = "Ok" <=> InGrid(tile_ret.args[1], tile_ret.args[2], tile_ret.args[3]))
    /\ tile_ret.op = "is_valid_for_zoom" =>
          ((tile_ret.kind = "Ok" /\ tile_ret.val)
              <=> (this_tile.z = tile_ret.args[1]
                      /\ this_tile.x < Pow2(this_tile.z) /\ this_tile.y < Pow2(this_tile.z)))

\* the features of the add_feature calls that returned Ok, in call order
AcceptedFeatures ==
    LET accepted == SelectSeq(tile_calls, LAMBDA call : call[2] = "Ok")
    IN  [i \in 1..Len(accepted) |-> accepted[i][1]]

\* C28: add_feature returns Ok and appends the feature iff its bounds intersect
\* the tile's, and otherwise returns an error and leaves the list as it was: the
\* list is always the accepted features in call order, each intersecting the tile
C28_AcceptedInOrder ==
    this_tile.kind = "Tile" =>
        /\ this_tile.features = AcceptedFeatures
        /\ \A i \in 1..Len(tile_calls) :
              tile_calls[i][2] = "Ok" <=> intersects(tile_calls[i][1].bounds, this_tile.bounds)
        /\ \A i \in 1..Len(this_tile.features) :
              intersects(this_tile.features[i].bounds, this_tile.bounds)

\* two features were accepted around one that was refused
C28_RefusedBetweenAccepted ==
    /\ this_tile.kind = "Tile"
    /\ Len(tile_calls) = 3
    /\ tile_calls[1][2] = "Ok" /\ tile_calls[2][2] = "Err" /\ tile_calls[3][2] = "Ok"
    /\ tile_calls[1][1].id = "across" /\ tile_calls[3][1].id = "inside"
    /\ Len(this_tile.features) = 2
    /\ this_tile.features[1].id = "across" /\ this_tile.features[2].id = "inside"

(***************************************************************************)
(* Claims about Layer                                                      *)
(***************************************************************************)
\* C24: with_zoom_range given a min_zoom or max_zoom above 20, or min_zoom above
\* max_zoom, is rejected with an error and stores nothing; with_opacity clamps
\* into [0,1]; and after any chain of builder calls is_valid succeeds on a layer
\* of non-empty id and name
C24_OnlyOpacityClamps ==
    /\ (/\ layer_ret.op = "with_zoom_range"
        /\ \/ layer_ret.args[1] > MaxZoom
           \/ layer_ret.args[2] > MaxZoom
           \/ layer_ret.args[1] > layer_ret.args[2])
            => layer_ret.result # "Ok" /\ this_layer = layer_ret.before
    /\ layer_ret.op = "with_opacity" =>
            /\ FGe(this_layer.opacity, 0) /\ FLe(this_layer.opacity, OpacityOne)
            /\ (FGe(layer_ret.args[1], 0) /\ FLe(layer_ret.args[1], OpacityOne))
                    => this_layer.opacity = layer_ret.args[1]
            /\ FLt(layer_ret.args[1], 0) => this_layer.opacity = 0
            /\ FGt(layer_ret.args[1], OpacityOne) => this_layer.opacity = OpacityOne
    /\ (layer_ret.op = "is_valid" /\ this_layer.id # "" /\ this_layer.name # "")
            => layer_ret.result = "Ok"

(***************************************************************************)
(* Claims about tiles in the cache                                         *)
(***************************************************************************)
\* C25: a Tile starts NotLoaded with no feature; a load completion installs the
\* tile, with status Loaded or Error and its features, through TileCache::insert
\* in one step, and a get never returns a NotLoaded or Loading tile that has
\* features
C25_CompletionInstalls ==
    [][/\ Tile_new(0, 0, 0).tile.status = "NotLoaded"
       /\ Tile_new(0, 0, 0).tile.features = <<>>
       /\ \A id \in TileIds, loaded \in TileVals :
            (Insert(id, loaded) /\ loaded.status \in {"Loaded", "Error"})
            => /\ cache_ret'.kind # "Panic"
               /\ id \in DOMAIN tiles'
               /\ tiles'[id] = loaded
       /\ (cache_ret'.op = "get" /\ cache_ret'.kind = "Some")
            => ~(cache_ret'.val.status \in {"NotLoaded", "Loading"}
                    /\ cache_ret'.val.features # <<>>)]_vars

C27_BoundsNeverEmpty ==
    vp_live =>
        /\ ~is_empty(viewport.bounds)
        /\ viewport.bounds.min_x < viewport.bounds.max_x
        /\ viewport.bounds.min_y < viewport.bounds.max_y
        /\ viewport.bounds.max_x - viewport.center.lng
              = viewport.center.lng - viewport.bounds.min_x
        /\ viewport.bounds.max_y - viewport.center.lat
              = viewport.center.lat - viewport.bounds.min_y

\* a point was converted on the smallest viewport at the deepest zoom, after a
\* call on it had failed
C27_TransformAfterFailedCall ==
    /\ vp_live /\ vp_ret = "Err"
    /\ viewport.size = PixelSize_new(1, 1) /\ viewport.zoom = MaxZoom * ZoomDen
    /\ xf.op = "world_to_screen"
    /\ ~is_empty(viewport.bounds)

(***************************************************************************)
(* Claims about GeoArrowFile                                               *)
(***************************************************************************)
\* an open() among the first n calls succeeded
OpenedWithin(n) == \E i \in 1..n : file_ret[i].op = "open" /\ file_ret[i].kind = "Ok"

\* C29: until an open() has succeeded (on a fresh file, and after opens that
\* failed) no feature count is recorded, and every get_features returns an I/O
\* error and no features
C29_NeedsOpen ==
    /\ (this_file # NoFile /\ ~OpenedWithin(Len(file_ret))) => ~this_file.feature_count.some
    /\ \A i \in 1..Len(file_ret) :
          (file_ret[i].op = "get_features" /\ ~OpenedWithin(i - 1))
          => file_ret[i].kind = "Io: File not loaded. Call open() first."
             /\ ~file_ret[i].features.some

\* get_features failed on a file whose two opens had failed
C29_FailedOpensThenGet ==
    /\ Len(file_ret) = 4
    /\ file_ret[2].op = "open" /\ file_ret[2].kind = "Serialization: Invalid GeoJSON"
    /\ file_ret[3].op = "open" /\ file_ret[3].kind = "Io: Failed to read file"
    /\ file_ret[4].op = "get_features"
    /\ file_ret[4].kind = "Io: File not loaded. Call open() first."
    /\ ~this_file.feature_count.some

(***************************************************************************)
(* Claims about MapView                                                    *)
(***************************************************************************)
\* the zoom and the position the first n calls set last
RECURSIVE ZoomSet(_)
ZoomSet(n) ==
    IF view_ret[n].op = "default" THEN 1
    ELSE IF view_ret[n].op = "new" THEN view_ret[n].arg[2]
    ELSE IF view_ret[n].op = "set_zoom" THEN view_ret[n].arg[1]
    ELSE ZoomSet(n - 1)

RECURSIVE PositionSet(_)
PositionSet(n) ==
    IF view_ret[n].op = "default" THEN <<0, 0>>
    ELSE IF view_ret[n].op = "new" THEN view_ret[n].arg[1]
    ELSE IF view_ret[n].op = "set_position" THEN view_ret[n].arg[1]
    ELSE PositionSet(n - 1)

\* C30: get_zoom and get_position return the values set last (1 and (0,0) on a
\* default view), the view holds them whatever was rendered in between, and the
\* stored zoom is in [0,20]
C30_LastWriteWins ==
    this_view # NoView =>
        /\ this_view.zoom = ZoomSet(Len(view_ret))
        /\ this_view.position = PositionSet(Len(view_ret))
        /\ \A i \in 1..Len(view_ret) :
              /\ view_ret[i].op = "get_zoom" => view_ret[i].val = <<ZoomSet(i)>>
              /\ view_ret[i].op = "get_position" => view_ret[i].val = <<PositionSet(i)>>
        /\ this_view.zoom \in 0..MaxZoom

====
